---- MODULE Spec2Model ----
(***************************************************************************)
(* Workflow / status migration logic of the project-type and task-type     *)
(* endpoints (backend/app/api/v1/endpoints/project_types.py and            *)
(* task_types.py), with the project, task and team endpoints that write    *)
(* the same tables.  The store is the tables the endpoints read and write; *)
(* a request is received, handled by its endpoint in one step (the         *)
(* endpoint runs inside one database session), and answered.               *)
(***************************************************************************)
EXTENDS Integers, Sequences, FiniteSets, Bags, TLC

VARIABLES
    project_types,  \* table project_types: id -> [workflow]
    projects,       \* table projects: id -> [project_type_id, status]
    task_types,     \* table task_types: id -> [team_id, workflow]
    tasks,          \* table tasks: id -> [task_type_id, team_id, status, display_id]
    teams,          \* table teams: id -> [slug]
    seq,            \* the id sequences: table -> last id handed out
    pc,             \* "idle" | "received" | "responded"
    request,        \* the request being served
    response,       \* the response to it (NoResponse until the handler ran)
    attempt,        \* how many times the client has sent the request
    before,         \* history: the tables when the handler started
    project_dependencies,   \* table project_dependencies: bag of <<project_id, depends_on_id>>
    task_dependencies,      \* table task_dependencies: bag of <<task_id, depends_on_id>>
    github_links,   \* table github_links: id -> [task_id, link_type, repository_owner, ...]
    sessions        \* requests served at the same time: session -> its request and locals

vars == <<project_types, projects, task_types, tasks, teams, seq, pc, request,
          response, attempt, before, project_dependencies, task_dependencies,
          github_links, sessions>>

\* the tables as one value
Db == [project_types |-> project_types, projects |-> projects,
       task_types |-> task_types, tasks |-> tasks, teams |-> teams]

(***************************************************************************)
(* Bounds of the model.                                                    *)
(***************************************************************************)
MaxWorkflowLen == 2     \* longest workflow a request proposes
MaxMappings == 2        \* longest status_mappings list of a request
NumRows == 2            \* rows in the projects table and in the tasks table
MaxLifeMappings == 1    \* longest status_mappings list in a run of many requests

Statuses == {"Backlog", "Doing", "Done"}

TypeIds == {1, 2}

TeamIds == {1, 2, 3}

RowIds == 1..NumRows

NoRequest == [op |-> "none"]

NoResponse == [status_code |-> 0]

(***************************************************************************)
(* Plain data helpers.                                                     *)
(***************************************************************************)
Range(s) == {s[i] : i \in DOMAIN s}

SeqsUpTo(S, n) == UNION {[1..k -> S] : k \in 0..n}

\* StatusMigration / TaskStatusMigration: a pair (old_status, new_status)
StatusMigration == [old_status : Statuses, new_status : Statuses]

\* the request bodies the endpoints accept: any list of strings as the
\* workflow (no validator on the parameter), any list of pairs as mappings
Workflows == SeqsUpTo(Statuses, MaxWorkflowLen)

StatusMappings == SeqsUpTo(StatusMigration, MaxMappings)

(***************************************************************************)
(* A Python dict is a sequence of <<key, value>> pairs with distinct keys, *)
(* in insertion order; assigning to an existing key keeps its position.    *)
(***************************************************************************)
DictHas(d, k) == \E i \in DOMAIN d : d[i][1] = k

DictGet(d, k, default) ==
    IF DictHas(d, k) THEN d[CHOOSE i \in DOMAIN d : d[i][1] = k][2] ELSE default

DictSet(d, k, v) ==
    IF DictHas(d, k)
    THEN [i \in DOMAIN d |-> IF d[i][1] = k THEN <<k, v>> ELSE d[i]]
    ELSE Append(d, <<k, v>>)

RECURSIVE DictOf(_)
\* {m.old_status: m.new_status for m in status_mappings}
DictOf(status_mappings) ==
    IF status_mappings = <<>> THEN <<>>
    ELSE LET n == Len(status_mappings)
             m == status_mappings[n]
         IN DictSet(DictOf(SubSeq(status_mappings, 1, n - 1)), m.old_status, m.new_status)

RECURSIVE FirstPairWins(_)
\* mutant: a key keeps the new_status of its first pair
FirstPairWins(status_mappings) ==
    IF status_mappings = <<>> THEN <<>>
    ELSE LET n == Len(status_mappings)
             m == status_mappings[n]
             d == FirstPairWins(SubSeq(status_mappings, 1, n - 1))
         IN IF DictHas(d, m.old_status) THEN d
            ELSE Append(d, <<m.old_status, m.new_status>>)

BuildStatusMap(status_mappings) == DictOf(status_mappings)

\* removed_statuses = old_workflow_set - new_workflow_set
RemovedStatuses(old_workflow, workflow) == Range(old_workflow) \ Range(workflow)

\* mutant: validates the old_status of each entry instead of its new_status
InvalidTargetsByKey(status_map, workflow_set) ==
    {i \in DOMAIN status_map : status_map[i][1] \notin workflow_set}

\* the first value of status_map (in dict order) that is not in the workflow
\* set, as the loop `for new_status in status_map.values()` finds it
InvalidTargets(status_map, workflow_set) ==
    {i \in DOMAIN status_map : status_map[i][2] \notin workflow_set}

\* mutant: reports the last offending value instead of the first
LastInvalidTarget(status_map, workflow_set) ==
    LET bad == InvalidTargets(status_map, workflow_set)
        i == CHOOSE j \in bad : \A k \in bad : j >= k
    IN status_map[i][2]

FirstInvalidTarget(status_map, workflow_set) ==
    LET bad == InvalidTargets(status_map, workflow_set)
        i == CHOOSE j \in bad : \A k \in bad : j <= k
    IN status_map[i][2]

\* mutant: the same-type check is missing
NeverSameType(target_id, type_id) == FALSE

\* if target_type.id == project_type_id (task_type_id)
SameType(target_id, type_id) == target_id = type_id

\* HTTPException(status_code, detail)
HTTPException(code, detail) == [status_code |-> code, detail |-> detail]

\* an exception that is no HTTPException leaves the endpoint
InternalServerError == [status_code |-> 500, detail |-> [msg |-> "Internal Server Error"]]

\* mutant: the response schema has no constraint on workflow
AnyWorkflowValidates(workflow) == TRUE

\* ProjectTypeResponse / TaskTypeResponse .model_validate(type):
\* workflow: list[str] = Field(..., min_length=1)
WorkflowValidates(workflow) == Len(workflow) >= 1

\* the database session of a request: what the endpoint wrote is committed
\* when it returns and rolled back when it raises
SessionOutcome(raised, old, new) == IF raised THEN old ELSE new

\* settings.TASK_ID_PREFIX
TASK_ID_PREFIX == "CORE"

\* f"{prefix}-{n}"
DisplayId(n) == TASK_ID_PREFIX \o "-" \o ToString(n)

(***************************************************************************)
(* projects: update_project_type_workflow                                  *)
(***************************************************************************)
\* mutant: the count forgets the project_type_id filter
CountProjectsOfAnyType(rows, project_type_id, status) ==
    Cardinality({p \in DOMAIN rows : rows[p].status = status})

\* select(func.count()).select_from(Project).where(project_type_id, status)
CountProjects(rows, project_type_id, status) ==
    Cardinality({p \in DOMAIN rows :
        rows[p].project_type_id = project_type_id /\ rows[p].status = status})

\* mutant: every removed status without a mapping blocks, used or not
UnmappedProjectStatusesUnused(rows, project_type_id, removed_statuses, status_map) ==
    {removed \in removed_statuses : ~DictHas(status_map, removed)}

\* mutant: no removed status is ever reported
NoUnmappedProjectStatuses(rows, project_type_id, removed_statuses, status_map) == {}

\* the removed statuses for which the loop raises: not a key of status_map
\* and with at least one project
UnmappedProjectStatuses(rows, project_type_id, removed_statuses, status_map) ==
    {removed \in removed_statuses :
        /\ ~DictHas(status_map, removed)
        /\ CountProjects(rows, project_type_id, removed) > 0}

\* mutant: the UPDATE is not restricted to the projects of the type
UpdateProjectStatusOfAnyType(rows, project_type_id, old_status, new_status) ==
    [p \in DOMAIN rows |->
        IF rows[p].status = old_status
        THEN [rows[p] EXCEPT !.status = new_status]
        ELSE rows[p]]

\* update(Project).where(project_type_id, status == old).values(status=new)
UpdateProjectStatus(rows, project_type_id, old_status, new_status) ==
    [p \in DOMAIN rows |->
        IF rows[p].project_type_id = project_type_id /\ rows[p].status = old_status
        THEN [rows[p] EXCEPT !.status = new_status]
        ELSE rows[p]]

RECURSIVE MigrateProjectStatuses(_, _, _)
\* for old_status, new_status in status_map.items(): one UPDATE each, in order
MigrateProjectStatuses(rows, project_type_id, status_map) ==
    IF status_map = <<>> THEN rows
    ELSE MigrateProjectStatuses(
            UpdateProjectStatus(rows, project_type_id, status_map[1][1], status_map[1][2]),
            project_type_id, Tail(status_map))

\* mutant: only the entries of status_map keyed on a removed status are applied
update_project_type_workflow_removed_only ==
    /\ pc = "received"
    /\ UNCHANGED <<sessions, project_dependencies, task_dependencies, github_links>>
    /\ request.op = "update_project_type_workflow"
    /\ pc' = "responded"
    /\ before' = Db
    /\ UNCHANGED <<task_types, tasks, teams, seq, request, attempt>>
    /\ LET project_type_id == request.project_type_id
           workflow == request.workflow
       IN IF project_type_id \notin DOMAIN project_types
          THEN /\ response' = HTTPException(404, [msg |-> "Project type not found"])
               /\ UNCHANGED <<project_types, projects>>
          ELSE LET new_workflow_set == Range(workflow)
                   removed_statuses ==
                       RemovedStatuses(project_types[project_type_id].workflow, workflow)
                   status_map == BuildStatusMap(request.status_mappings)
                   unmapped == UnmappedProjectStatuses(projects, project_type_id,
                                                       removed_statuses, status_map)
                   IsRemoved(entry) == entry[1] \in removed_statuses
               IN IF unmapped # {}
                  THEN /\ \E removed \in unmapped :
                            response' = HTTPException(400,
                                [msg |-> "Status has projects",
                                 status |-> removed,
                                 count |-> CountProjects(projects, project_type_id, removed)])
                       /\ UNCHANGED <<project_types, projects>>
                  ELSE IF InvalidTargets(status_map, new_workflow_set) # {}
                  THEN /\ response' = HTTPException(400,
                                [msg |-> "Target status not in new workflow",
                                 status |-> FirstInvalidTarget(status_map, new_workflow_set)])
                       /\ UNCHANGED <<project_types, projects>>
                  ELSE LET raised == ~WorkflowValidates(workflow)
                       IN /\ projects' = SessionOutcome(raised, projects,
                                MigrateProjectStatuses(projects, project_type_id,
                                    SelectSeq(status_map, IsRemoved)))
                          /\ project_types' = SessionOutcome(raised, project_types,
                                [project_types EXCEPT ![project_type_id].workflow = workflow])
                          /\ response' =
                                IF raised THEN InternalServerError
                                ELSE [status_code |-> 200,
                                      body |-> [id |-> project_type_id, workflow |-> workflow]]

\* mutant: the targets of status_map are validated before the removed
\* statuses are counted
update_project_type_workflow_targets_first ==
    /\ pc = "received"
    /\ UNCHANGED <<sessions, project_dependencies, task_dependencies, github_links>>
    /\ request.op = "update_project_type_workflow"
    /\ pc' = "responded"
    /\ before' = Db
    /\ UNCHANGED <<task_types, tasks, teams, seq, request, attempt>>
    /\ LET project_type_id == request.project_type_id
           workflow == request.workflow
       IN IF project_type_id \notin DOMAIN project_types
          THEN /\ response' = HTTPException(404, [msg |-> "Project type not found"])
               /\ UNCHANGED <<project_types, projects>>
          ELSE LET new_workflow_set == Range(workflow)
                   removed_statuses ==
                       RemovedStatuses(project_types[project_type_id].workflow, workflow)
                   status_map == BuildStatusMap(request.status_mappings)
                   unmapped == UnmappedProjectStatuses(projects, project_type_id,
                                                       removed_statuses, status_map)
               IN IF InvalidTargets(status_map, new_workflow_set) # {}
                  THEN /\ response' = HTTPException(400,
                                [msg |-> "Target status not in new workflow",
                                 status |-> FirstInvalidTarget(status_map, new_workflow_set)])
                       /\ UNCHANGED <<project_types, projects>>
                  ELSE IF unmapped # {}
                  THEN /\ \E removed \in unmapped :
                            response' = HTTPException(400,
                                [msg |-> "Status has projects",
                                 status |-> removed,
                                 count |-> CountProjects(projects, project_type_id, removed)])
                       /\ UNCHANGED <<project_types, projects>>
                  ELSE LET raised == ~WorkflowValidates(workflow)
                       IN /\ projects' = SessionOutcome(raised, projects,
                                MigrateProjectStatuses(projects, project_type_id, status_map))
                          /\ project_types' = SessionOutcome(raised, project_types,
                                [project_types EXCEPT ![project_type_id].workflow = workflow])
                          /\ response' =
                                IF raised THEN InternalServerError
                                ELSE [status_code |-> 200,
                                      body |-> [id |-> project_type_id, workflow |-> workflow]]

\* mutant: the UPDATE statements run before the target statuses are validated
update_project_type_workflow_late_validation ==
    /\ pc = "received"
    /\ UNCHANGED <<sessions, project_dependencies, task_dependencies, github_links>>
    /\ request.op = "update_project_type_workflow"
    /\ pc' = "responded"
    /\ before' = Db
    /\ UNCHANGED <<task_types, tasks, teams, seq, request, attempt>>
    /\ LET project_type_id == request.project_type_id
           workflow == request.workflow
       IN IF project_type_id \notin DOMAIN project_types
          THEN /\ response' = HTTPException(404, [msg |-> "Project type not found"])
               /\ UNCHANGED <<project_types, projects>>
          ELSE LET new_workflow_set == Range(workflow)
                   removed_statuses ==
                       RemovedStatuses(project_types[project_type_id].workflow, workflow)
                   status_map == BuildStatusMap(request.status_mappings)
                   unmapped == UnmappedProjectStatuses(projects, project_type_id,
                                                       removed_statuses, status_map)
               IN IF unmapped # {}
                  THEN /\ \E removed \in unmapped :
                            response' = HTTPException(400,
                                [msg |-> "Status has projects",
                                 status |-> removed,
                                 count |-> CountProjects(projects, project_type_id, removed)])
                       /\ UNCHANGED <<project_types, projects>>
                  ELSE /\ projects' = MigrateProjectStatuses(projects, project_type_id, status_map)
                       /\ IF InvalidTargets(status_map, new_workflow_set) # {}
                          THEN /\ response' = HTTPException(400,
                                    [msg |-> "Target status not in new workflow",
                                     status |-> FirstInvalidTarget(status_map, new_workflow_set)])
                               /\ UNCHANGED project_types
                          ELSE /\ project_types' =
                                    [project_types EXCEPT ![project_type_id].workflow = workflow]
                               /\ response' = [status_code |-> 200,
                                       body |-> [id |-> project_type_id, workflow |-> workflow]]

update_project_type_workflow ==
    /\ pc = "received"
    /\ UNCHANGED <<sessions, project_dependencies, task_dependencies, github_links>>
    /\ request.op = "update_project_type_workflow"
    /\ pc' = "responded"
    /\ before' = Db
    /\ UNCHANGED <<task_types, tasks, teams, seq, request, attempt>>
    /\ LET project_type_id == request.project_type_id
           workflow == request.workflow
       IN IF project_type_id \notin DOMAIN project_types
          THEN /\ response' = HTTPException(404, [msg |-> "Project type not found"])
               /\ UNCHANGED <<project_types, projects>>
          ELSE LET new_workflow_set == Range(workflow)
                   removed_statuses ==
                       RemovedStatuses(project_types[project_type_id].workflow, workflow)
                   status_map == BuildStatusMap(request.status_mappings)
                   unmapped == UnmappedProjectStatuses(projects, project_type_id,
                                                       removed_statuses, status_map)
               IN IF unmapped # {}
                  THEN \* the set is iterated in an unspecified order
                       /\ \E removed \in unmapped :
                            response' = HTTPException(400,
                                [msg |-> "Status has projects",
                                 status |-> removed,
                                 count |-> CountProjects(projects, project_type_id, removed)])
                       /\ UNCHANGED <<project_types, projects>>
                  ELSE IF InvalidTargets(status_map, new_workflow_set) # {}
                  THEN /\ response' = HTTPException(400,
                                [msg |-> "Target status not in new workflow",
                                 status |-> FirstInvalidTarget(status_map, new_workflow_set)])
                       /\ UNCHANGED <<project_types, projects>>
                  ELSE \* the UPDATEs and the assignment, then the response is built
                       LET raised == ~WorkflowValidates(workflow)
                       IN /\ projects' = SessionOutcome(raised, projects,
                                MigrateProjectStatuses(projects, project_type_id, status_map))
                          /\ project_types' = SessionOutcome(raised, project_types,
                                [project_types EXCEPT ![project_type_id].workflow = workflow])
                          /\ response' =
                                IF raised THEN InternalServerError
                                ELSE [status_code |-> 200,
                                      body |-> [id |-> project_type_id, workflow |-> workflow]]

(***************************************************************************)
(* projects: migrate_projects_to_type                                      *)
(***************************************************************************)
\* default_status = target_type.workflow[0] if target_type.workflow else "Backlog"
DefaultStatus(target_workflow) ==
    IF target_workflow # <<>> THEN target_workflow[1] ELSE "Backlog"

\* select(Project).where(Project.project_type_id == project_type_id)
ProjectsOfType(rows, project_type_id) ==
    {p \in DOMAIN rows : rows[p].project_type_id = project_type_id}

\* mutant: only the projects whose status has a mapping are moved
MigrateProjectsMappedOnly(rows, project_type_id, target_id, status_map, default_status) ==
    [p \in DOMAIN rows |->
        IF p \in ProjectsOfType(rows, project_type_id) /\ DictHas(status_map, rows[p].status)
        THEN [rows[p] EXCEPT
                !.project_type_id = target_id,
                !.status = DictGet(status_map, rows[p].status, default_status)]
        ELSE rows[p]]

\* mutant: the mappings are applied one after another, as in a workflow update
MigrateProjectsChained(rows, project_type_id, target_id, status_map, default_status) ==
    LET moved == MigrateProjectStatuses(rows, project_type_id, status_map)
    IN [p \in DOMAIN rows |->
        IF p \in ProjectsOfType(rows, project_type_id)
        THEN [rows[p] EXCEPT
                !.project_type_id = target_id,
                !.status = IF DictHas(status_map, rows[p].status)
                           THEN moved[p].status ELSE default_status]
        ELSE rows[p]]

\* mutant: a project whose status has no mapping keeps its status
MigrateProjectsKeepUnmapped(rows, project_type_id, target_id, status_map, default_status) ==
    [p \in DOMAIN rows |->
        IF p \in ProjectsOfType(rows, project_type_id)
        THEN [rows[p] EXCEPT
                !.project_type_id = target_id,
                !.status = DictGet(status_map, rows[p].status, rows[p].status)]
        ELSE rows[p]]

\* the loop over the selected projects: each row is rewritten once, from the
\* status it had when it was selected
MigrateProjects(rows, project_type_id, target_id, status_map, default_status) ==
    [p \in DOMAIN rows |->
        IF p \in ProjectsOfType(rows, project_type_id)
        THEN [rows[p] EXCEPT
                !.project_type_id = target_id,
                !.status = DictGet(status_map, rows[p].status, default_status)]
        ELSE rows[p]]

migrate_projects_to_type ==
    /\ pc = "received"
    /\ UNCHANGED <<sessions, project_dependencies, task_dependencies, github_links>>
    /\ request.op = "migrate_projects_to_type"
    /\ pc' = "responded"
    /\ before' = Db
    /\ UNCHANGED <<project_types, task_types, tasks, teams, seq, request, attempt>>
    /\ LET project_type_id == request.project_type_id
           target_id == request.target_project_type_id
       IN IF project_type_id \notin DOMAIN project_types
          THEN /\ response' = HTTPException(404, [msg |-> "Source project type not found"])
               /\ UNCHANGED projects
          ELSE IF target_id \notin DOMAIN project_types
          THEN /\ response' = HTTPException(400, [msg |-> "Target project type not found"])
               /\ UNCHANGED projects
          ELSE IF SameType(target_id, project_type_id)
          THEN /\ response' = HTTPException(400,
                        [msg |-> "Cannot migrate to the same project type"])
               /\ UNCHANGED projects
          ELSE LET status_map == BuildStatusMap(request.status_mappings)
                   target_workflow == project_types[target_id].workflow
                   target_workflow_set == Range(target_workflow)
               IN IF InvalidTargets(status_map, target_workflow_set) # {}
                  THEN /\ response' = HTTPException(400,
                                [msg |-> "Target status not in target workflow",
                                 status |-> FirstInvalidTarget(status_map, target_workflow_set)])
                       /\ UNCHANGED projects
                  ELSE /\ projects' = MigrateProjects(projects, project_type_id, target_id,
                                            status_map, DefaultStatus(target_workflow))
                       /\ response' = [status_code |-> 200,
                                       body |-> [migrated_count |->
                                                    Cardinality(ProjectsOfType(projects, project_type_id)),
                                                 target |-> target_id]]

(***************************************************************************)
(* projects: delete_project_type                                           *)
(***************************************************************************)
\* t without the row of key id
DeleteRow(t, id) == [k \in DOMAIN t \ {id} |-> t[k]]

\* mutant: the count forgets its where clause
ProjectCountOfAnyType(rows, project_type_id) == Cardinality(DOMAIN rows)

\* mutant: the count compares the type's id with Project.id
ProjectCountById(rows, project_type_id) ==
    Cardinality({p \in DOMAIN rows : p = project_type_id})

\* select(func.count()).select_from(Project).where(project_type_id == ...)
ProjectCount(rows, project_type_id) == Cardinality(ProjectsOfType(rows, project_type_id))

delete_project_type ==
    /\ pc = "received"
    /\ UNCHANGED <<sessions, project_dependencies, task_dependencies, github_links>>
    /\ request.op = "delete_project_type"
    /\ pc' = "responded"
    /\ before' = Db
    /\ UNCHANGED <<projects, task_types, tasks, teams, seq, request, attempt>>
    /\ LET project_type_id == request.project_type_id
       IN IF project_type_id \notin DOMAIN project_types
          THEN /\ response' = HTTPException(404, [msg |-> "Project type not found"])
               /\ UNCHANGED project_types
          ELSE LET project_count == ProjectCount(projects, project_type_id)
               IN IF project_count > 0
                  THEN /\ response' = HTTPException(400,
                                [msg |-> "Cannot delete project type with existing projects",
                                 count |-> project_count])
                       /\ UNCHANGED project_types
                  ELSE /\ project_types' = DeleteRow(project_types, project_type_id)
                       /\ response' = [status_code |-> 200,
                                       body |-> [message |-> "Project type deleted successfully"]]

(***************************************************************************)
(* projects: update_project_type (the generic PATCH)                       *)
(***************************************************************************)
\* mutant: the generic PATCH ignores the workflow field
SetWorkflowIgnored(types, type_id, update_data) == types

\* for field, value in update_data.items(): setattr(type, field, value)
\* (of the fields of ProjectTypeUpdate / TaskTypeUpdate, workflow is modelled)
SetWorkflow(types, type_id, update_data) ==
    IF DictHas(update_data, "workflow")
    THEN [types EXCEPT ![type_id].workflow = DictGet(update_data, "workflow", <<>>)]
    ELSE types

update_project_type ==
    /\ pc = "received"
    /\ UNCHANGED <<sessions, project_dependencies, task_dependencies, github_links>>
    /\ request.op = "update_project_type"
    /\ pc' = "responded"
    /\ before' = Db
    /\ UNCHANGED <<projects, task_types, tasks, teams, seq, request, attempt>>
    /\ LET project_type_id == request.project_type_id
       IN IF project_type_id \notin DOMAIN project_types
          THEN /\ response' = HTTPException(404, [msg |-> "Project type not found"])
               /\ UNCHANGED project_types
          ELSE LET updated == SetWorkflow(project_types, project_type_id, request.update_data)
                   raised == ~WorkflowValidates(updated[project_type_id].workflow)
               IN /\ project_types' = SessionOutcome(raised, project_types, updated)
                  /\ response' =
                        IF raised THEN InternalServerError
                        ELSE [status_code |-> 200,
                              body |-> [id |-> project_type_id,
                                        workflow |-> updated[project_type_id].workflow]]

(***************************************************************************)
(* projects: create_project, update_project                                *)
(***************************************************************************)
\* db.add(project); await db.flush(): the row gets the next id of the sequence
InsertRow(t, id, row) == [k \in DOMAIN t \cup {id} |-> IF k = id THEN row ELSE t[k]]

create_project ==
    /\ pc = "received"
    /\ UNCHANGED <<sessions, project_dependencies, task_dependencies, github_links>>
    /\ request.op = "create_project"
    /\ pc' = "responded"
    /\ before' = Db
    /\ UNCHANGED <<project_types, task_types, tasks, teams, request, attempt>>
    /\ LET project_type_id == request.project_type_id
       IN IF project_type_id \notin DOMAIN project_types
          THEN /\ response' = HTTPException(400, [msg |-> "Invalid project type"])
               /\ UNCHANGED <<projects, seq>>
          ELSE LET initial_status == DefaultStatus(project_types[project_type_id].workflow)
                   id == seq.projects + 1
               IN /\ projects' = InsertRow(projects, id,
                        [project_type_id |-> project_type_id, status |-> initial_status])
                  /\ seq' = [seq EXCEPT !.projects = id]
                  /\ response' = [status_code |-> 201,
                                  body |-> [id |-> id, project_type_id |-> project_type_id,
                                            status |-> initial_status]]

\* ProjectUpdate declares title, description, theme_id, status, custom_data:
\* reading project_in.project_type_id raises AttributeError
ProjectUpdateFields == {"title", "description", "theme_id", "status", "custom_data"}

update_project ==
    /\ pc = "received"
    /\ UNCHANGED <<sessions, project_dependencies, task_dependencies, github_links>>
    /\ request.op = "update_project"
    /\ pc' = "responded"
    /\ before' = Db
    /\ UNCHANGED <<project_types, task_types, tasks, teams, seq, request, attempt>>
    /\ LET project_id == request.project_id
           update_data == request.update_data
       IN IF project_id \notin DOMAIN projects
          THEN /\ response' = HTTPException(404, [msg |-> "Project not found"])
               /\ UNCHANGED projects
          ELSE IF "project_type_id" \notin ProjectUpdateFields
          THEN \* if project_in.project_type_id is not None ...
               /\ response' = InternalServerError
               /\ UNCHANGED projects
          ELSE LET workflow == project_types[projects[project_id].project_type_id].workflow
               IN IF /\ DictHas(update_data, "status")
                     /\ DictGet(update_data, "status", "") \notin Range(workflow)
                  THEN /\ response' = HTTPException(400, [msg |-> "Invalid status"])
                       /\ UNCHANGED projects
                  ELSE /\ projects' =
                            IF DictHas(update_data, "status")
                            THEN [projects EXCEPT ![project_id].status =
                                        DictGet(update_data, "status", "")]
                            ELSE projects
                       /\ response' = [status_code |-> 200, body |-> [id |-> project_id]]

(***************************************************************************)
(* tasks: update_task_type_workflow                                        *)
(***************************************************************************)
\* select(func.count()).select_from(Task).where(task_type_id, status)
CountTasks(rows, task_type_id, status) ==
    Cardinality({t \in DOMAIN rows :
        rows[t].task_type_id = task_type_id /\ rows[t].status = status})

UnmappedTaskStatuses(rows, task_type_id, removed_statuses, status_map) ==
    {removed \in removed_statuses :
        /\ ~DictHas(status_map, removed)
        /\ CountTasks(rows, task_type_id, removed) > 0}

\* update(Task).where(task_type_id, status == old).values(status=new)
UpdateTaskStatus(rows, task_type_id, old_status, new_status) ==
    [t \in DOMAIN rows |->
        IF rows[t].task_type_id = task_type_id /\ rows[t].status = old_status
        THEN [rows[t] EXCEPT !.status = new_status]
        ELSE rows[t]]

RECURSIVE MigrateTaskStatuses(_, _, _)
\* for old_status, new_status in status_map.items(): one UPDATE each, in order
MigrateTaskStatuses(rows, task_type_id, status_map) ==
    IF status_map = <<>> THEN rows
    ELSE MigrateTaskStatuses(
            UpdateTaskStatus(rows, task_type_id, status_map[1][1], status_map[1][2]),
            task_type_id, Tail(status_map))

update_task_type_workflow ==
    /\ pc = "received"
    /\ UNCHANGED <<sessions, project_dependencies, task_dependencies, github_links>>
    /\ request.op = "update_task_type_workflow"
    /\ pc' = "responded"
    /\ before' = Db
    /\ UNCHANGED <<project_types, projects, teams, seq, request, attempt>>
    /\ LET task_type_id == request.task_type_id
           workflow == request.workflow
       IN IF task_type_id \notin DOMAIN task_types
          THEN /\ response' = HTTPException(404, [msg |-> "Task type not found"])
               /\ UNCHANGED <<task_types, tasks>>
          ELSE LET new_workflow_set == Range(workflow)
                   removed_statuses ==
                       RemovedStatuses(task_types[task_type_id].workflow, workflow)
                   status_map == BuildStatusMap(request.status_mappings)
                   unmapped == UnmappedTaskStatuses(tasks, task_type_id,
                                                    removed_statuses, status_map)
               IN IF unmapped # {}
                  THEN \* the set is iterated in an unspecified order
                       /\ \E removed \in unmapped :
                            response' = HTTPException(400,
                                [msg |-> "Status has tasks",
                                 status |-> removed,
                                 count |-> CountTasks(tasks, task_type_id, removed)])
                       /\ UNCHANGED <<task_types, tasks>>
                  ELSE IF InvalidTargets(status_map, new_workflow_set) # {}
                  THEN /\ response' = HTTPException(400,
                                [msg |-> "Target status not in new workflow",
                                 status |-> FirstInvalidTarget(status_map, new_workflow_set)])
                       /\ UNCHANGED <<task_types, tasks>>
                  ELSE \* the UPDATEs and the assignment, then the response is built
                       LET raised == ~WorkflowValidates(workflow)
                       IN /\ tasks' = SessionOutcome(raised, tasks,
                                MigrateTaskStatuses(tasks, task_type_id, status_map))
                          /\ task_types' = SessionOutcome(raised, task_types,
                                [task_types EXCEPT ![task_type_id].workflow = workflow])
                          /\ response' =
                                IF raised THEN InternalServerError
                                ELSE [status_code |-> 200,
                                      body |-> [id |-> task_type_id, workflow |-> workflow]]

(***************************************************************************)
(* tasks: migrate_tasks_to_type                                            *)
(***************************************************************************)
\* select(Task).where(Task.task_type_id == task_type_id)
TasksOfType(rows, task_type_id) ==
    {t \in DOMAIN rows : rows[t].task_type_id = task_type_id}

\* the loop over the selected tasks; the team follows the target type
MigrateTasks(rows, task_type_id, target_id, target_team_id, status_map, default_status) ==
    [t \in DOMAIN rows |->
        IF t \in TasksOfType(rows, task_type_id)
        THEN [rows[t] EXCEPT
                !.task_type_id = target_id,
                !.team_id = target_team_id,
                !.status = DictGet(status_map, rows[t].status, default_status)]
        ELSE rows[t]]

migrate_tasks_to_type ==
    /\ pc = "received"
    /\ UNCHANGED <<sessions, project_dependencies, task_dependencies, github_links>>
    /\ request.op = "migrate_tasks_to_type"
    /\ pc' = "responded"
    /\ before' = Db
    /\ UNCHANGED <<project_types, projects, task_types, teams, seq, request, attempt>>
    /\ LET task_type_id == request.task_type_id
           target_id == request.target_task_type_id
       IN IF task_type_id \notin DOMAIN task_types
          THEN /\ response' = HTTPException(404, [msg |-> "Source task type not found"])
               /\ UNCHANGED tasks
          ELSE IF target_id \notin DOMAIN task_types
          THEN /\ response' = HTTPException(400, [msg |-> "Target task type not found"])
               /\ UNCHANGED tasks
          ELSE IF SameType(target_id, task_type_id)
          THEN /\ response' = HTTPException(400,
                        [msg |-> "Cannot migrate to the same task type"])
               /\ UNCHANGED tasks
          ELSE LET status_map == BuildStatusMap(request.status_mappings)
                   target_workflow == task_types[target_id].workflow
                   target_workflow_set == Range(target_workflow)
               IN IF InvalidTargets(status_map, target_workflow_set) # {}
                  THEN /\ response' = HTTPException(400,
                                [msg |-> "Target status not in target workflow",
                                 status |-> FirstInvalidTarget(status_map, target_workflow_set)])
                       /\ UNCHANGED tasks
                  ELSE /\ tasks' = MigrateTasks(tasks, task_type_id, target_id,
                                        task_types[target_id].team_id,
                                        status_map, DefaultStatus(target_workflow))
                       /\ response' = [status_code |-> 200,
                                       body |-> [migrated_count |->
                                                    Cardinality(TasksOfType(tasks, task_type_id)),
                                                 target |-> target_id]]

(***************************************************************************)
(* tasks: delete_task_type                                                 *)
(***************************************************************************)
\* select(func.count()).select_from(Task).where(task_type_id == ...)
TaskCount(rows, task_type_id) == Cardinality(TasksOfType(rows, task_type_id))

delete_task_type ==
    /\ pc = "received"
    /\ UNCHANGED <<sessions, project_dependencies, task_dependencies, github_links>>
    /\ request.op = "delete_task_type"
    /\ pc' = "responded"
    /\ before' = Db
    /\ UNCHANGED <<project_types, projects, tasks, teams, seq, request, attempt>>
    /\ LET task_type_id == request.task_type_id
       IN IF task_type_id \notin DOMAIN task_types
          THEN /\ response' = HTTPException(404, [msg |-> "Task type not found"])
               /\ UNCHANGED task_types
          ELSE LET task_count == TaskCount(tasks, task_type_id)
               IN IF task_count > 0
                  THEN /\ response' = HTTPException(400,
                                [msg |-> "Cannot delete task type with existing tasks",
                                 count |-> task_count])
                       /\ UNCHANGED task_types
                  ELSE /\ task_types' = DeleteRow(task_types, task_type_id)
                       /\ response' = [status_code |-> 200,
                                       body |-> [message |-> "Task type deleted successfully"]]

(***************************************************************************)
(* tasks: update_task_type (the generic PATCH)                             *)
(***************************************************************************)
update_task_type ==
    /\ pc = "received"
    /\ UNCHANGED <<sessions, project_dependencies, task_dependencies, github_links>>
    /\ request.op = "update_task_type"
    /\ pc' = "responded"
    /\ before' = Db
    /\ UNCHANGED <<project_types, projects, tasks, teams, seq, request, attempt>>
    /\ LET task_type_id == request.task_type_id
       IN IF task_type_id \notin DOMAIN task_types
          THEN /\ response' = HTTPException(404, [msg |-> "Task type not found"])
               /\ UNCHANGED task_types
          ELSE LET updated == SetWorkflow(task_types, task_type_id, request.update_data)
                   raised == ~WorkflowValidates(updated[task_type_id].workflow)
               IN /\ task_types' = SessionOutcome(raised, task_types, updated)
                  /\ response' =
                        IF raised THEN InternalServerError
                        ELSE [status_code |-> 200,
                              body |-> [id |-> task_type_id,
                                        workflow |-> updated[task_type_id].workflow]]

(***************************************************************************)
(* tasks: create_task, update_task, delete_task                            *)
(***************************************************************************)
\* mutant: the number of tasks instead of the highest id
TaskRowCount(rows) == Cardinality(DOMAIN rows)

\* select(func.max(Task.id)) ... result.scalar() or 0
MaxTaskId(rows) ==
    IF DOMAIN rows = {} THEN 0 ELSE CHOOSE m \in DOMAIN rows : \A k \in DOMAIN rows : k <= m

\* generate_display_id
generate_display_id(rows) == DisplayId(MaxTaskId(rows) + 1)

\* tasks.display_id is unique: the INSERT of a second row with it fails
DisplayIdTaken(rows, display_id) == \E t \in DOMAIN rows : rows[t].display_id = display_id

\* mutant: the task type is looked up by its id alone
TaskTypeExists(types, task_type_id, team_id) == task_type_id \in DOMAIN types

\* select(TaskType).where(TaskType.id == ..., TaskType.team_id == ...)
TaskTypeOfTeam(types, task_type_id, team_id) ==
    task_type_id \in DOMAIN types /\ types[task_type_id].team_id = team_id

create_task ==
    /\ pc = "received"
    /\ UNCHANGED <<sessions, project_dependencies, task_dependencies, github_links>>
    /\ request.op = "create_task"
    /\ pc' = "responded"
    /\ before' = Db
    /\ UNCHANGED <<project_types, projects, task_types, teams, request, attempt>>
    /\ LET team_id == request.team_id
           task_type_id == request.task_type_id
       IN IF team_id \notin DOMAIN teams
          THEN /\ response' = HTTPException(400, [msg |-> "Team not found"])
               /\ UNCHANGED <<tasks, seq>>
          ELSE IF ~TaskTypeOfTeam(task_types, task_type_id, team_id)
          THEN /\ response' = HTTPException(400, [msg |-> "Invalid task type for this team"])
               /\ UNCHANGED <<tasks, seq>>
          ELSE LET display_id == generate_display_id(tasks)
                   initial_status == DefaultStatus(task_types[task_type_id].workflow)
                   id == seq.tasks + 1
                   raised == DisplayIdTaken(tasks, display_id)
               IN \* the sequence has handed out the id even when the INSERT fails
                  /\ seq' = [seq EXCEPT !.tasks = id]
                  /\ tasks' = SessionOutcome(raised, tasks, InsertRow(tasks, id,
                        [task_type_id |-> task_type_id, team_id |-> team_id,
                         status |-> initial_status, display_id |-> display_id]))
                  /\ response' =
                        IF raised THEN InternalServerError
                        ELSE [status_code |-> 201,
                              body |-> [id |-> id, display_id |-> display_id,
                                        team_id |-> team_id, task_type_id |-> task_type_id,
                                        status |-> initial_status]]

\* setattr(task, field, value) for the fields of update_data that are modelled
ApplyTaskUpdate(row, update_data) ==
    [row EXCEPT
        !.team_id = DictGet(update_data, "team_id", @),
        !.task_type_id = DictGet(update_data, "task_type_id", @),
        !.status = DictGet(update_data, "status", @)]

\* mutant: the status is validated against the workflow of the task type the
\* task has, whatever type the request selects
update_task_current_type ==
    /\ pc = "received"
    /\ UNCHANGED <<sessions, project_dependencies, task_dependencies, github_links>>
    /\ request.op = "update_task"
    /\ pc' = "responded"
    /\ before' = Db
    /\ UNCHANGED <<project_types, projects, task_types, teams, seq, request, attempt>>
    /\ LET task_id == request.task_id
           task_in == request.update_data
       IN IF task_id \notin DOMAIN tasks
          THEN /\ response' = HTTPException(404, [msg |-> "Task not found"])
               /\ UNCHANGED tasks
          ELSE LET task == tasks[task_id]
                   effective_team_id == DictGet(task_in, "team_id", task.team_id)
                   effective_task_type_id == DictGet(task_in, "task_type_id", task.task_type_id)
                   revalidated == DictHas(task_in, "task_type_id") \/ DictHas(task_in, "team_id")
                   validation_type_id == task.task_type_id
               IN IF DictHas(task_in, "team_id") /\ effective_team_id \notin DOMAIN teams
                  THEN /\ response' = HTTPException(400, [msg |-> "Team not found"])
                       /\ UNCHANGED tasks
                  ELSE IF /\ revalidated
                          /\ ~TaskTypeOfTeam(task_types, effective_task_type_id, effective_team_id)
                  THEN /\ response' = HTTPException(400,
                                [msg |-> "Invalid task type for this team"])
                       /\ UNCHANGED tasks
                  ELSE IF /\ DictHas(task_in, "status")
                          /\ DictGet(task_in, "status", "") \notin
                                Range(task_types[validation_type_id].workflow)
                  THEN /\ response' = HTTPException(400, [msg |-> "Invalid status"])
                       /\ UNCHANGED tasks
                  ELSE /\ tasks' = [tasks EXCEPT ![task_id] = ApplyTaskUpdate(task, task_in)]
                       /\ response' = [status_code |-> 200,
                                       body |-> [id |-> task_id,
                                                 task |-> ApplyTaskUpdate(task, task_in)]]

update_task ==
    /\ pc = "received"
    /\ UNCHANGED <<sessions, project_dependencies, task_dependencies, github_links>>
    /\ request.op = "update_task"
    /\ pc' = "responded"
    /\ before' = Db
    /\ UNCHANGED <<project_types, projects, task_types, teams, seq, request, attempt>>
    /\ LET task_id == request.task_id
           task_in == request.update_data
       IN IF task_id \notin DOMAIN tasks
          THEN /\ response' = HTTPException(404, [msg |-> "Task not found"])
               /\ UNCHANGED tasks
          ELSE LET task == tasks[task_id]
                   effective_team_id == DictGet(task_in, "team_id", task.team_id)
                   effective_task_type_id == DictGet(task_in, "task_type_id", task.task_type_id)
                   revalidated == DictHas(task_in, "task_type_id") \/ DictHas(task_in, "team_id")
                   \* task_type_for_validation: task.task_type unless looked up again
                   validation_type_id ==
                        IF revalidated THEN effective_task_type_id ELSE task.task_type_id
               IN IF DictHas(task_in, "team_id") /\ effective_team_id \notin DOMAIN teams
                  THEN /\ response' = HTTPException(400, [msg |-> "Team not found"])
                       /\ UNCHANGED tasks
                  ELSE IF /\ revalidated
                          /\ ~TaskTypeOfTeam(task_types, effective_task_type_id, effective_team_id)
                  THEN /\ response' = HTTPException(400,
                                [msg |-> "Invalid task type for this team"])
                       /\ UNCHANGED tasks
                  ELSE IF /\ DictHas(task_in, "status")
                          /\ DictGet(task_in, "status", "") \notin
                                Range(task_types[validation_type_id].workflow)
                  THEN /\ response' = HTTPException(400, [msg |-> "Invalid status"])
                       /\ UNCHANGED tasks
                  ELSE /\ tasks' = [tasks EXCEPT ![task_id] = ApplyTaskUpdate(task, task_in)]
                       /\ response' = [status_code |-> 200,
                                       body |-> [id |-> task_id,
                                                 task |-> ApplyTaskUpdate(task, task_in)]]

\* the rows of a dependency table that do not name the entity id
WithoutEntity(dependencies, id) ==
    [d \in {e \in DOMAIN dependencies : e[1] # id /\ e[2] # id} |-> dependencies[d]]

\* the rows of github_links that are not links of task task_id
WithoutLinksOf(links, task_id) ==
    [l \in {k \in DOMAIN links : links[k].task_id # task_id} |-> links[l]]

delete_task ==
    /\ pc = "received"
    /\ UNCHANGED <<sessions, project_dependencies>>
    /\ request.op = "delete_task"
    /\ pc' = "responded"
    /\ before' = Db
    /\ UNCHANGED <<project_types, projects, task_types, teams, seq, request, attempt>>
    /\ IF request.task_id \notin DOMAIN tasks
       THEN /\ response' = HTTPException(404, [msg |-> "Task not found"])
            /\ UNCHANGED <<tasks, task_dependencies, github_links>>
       ELSE /\ tasks' = DeleteRow(tasks, request.task_id)
            \* ondelete="CASCADE" of task_dependencies and github_links
            /\ task_dependencies' = WithoutEntity(task_dependencies, request.task_id)
            /\ github_links' = WithoutLinksOf(github_links, request.task_id)
            /\ response' = [status_code |-> 200,
                            body |-> [message |-> "Task deleted successfully",
                                      display_id |-> tasks[request.task_id].display_id]]

(***************************************************************************)
(* teams: delete_team                                                      *)
(***************************************************************************)
UNASSIGNED_TEAM_SLUG == "unassigned"

\* the workflow of the task type delete_team creates for a target team that
\* has none
DefaultTaskTypeWorkflow == <<"Backlog", "To Do", "In Progress", "Done">>

\* select(Team).where(Team.slug == UNASSIGNED_TEAM_SLUG)
UnassignedTeams(t) == {id \in DOMAIN t : t[id].slug = UNASSIGNED_TEAM_SLUG}

\* get_or_create_unassigned_team: the teams table afterwards
WithUnassignedTeam(t, new_id) ==
    IF UnassignedTeams(t) # {} THEN t
    ELSE InsertRow(t, new_id, [slug |-> UNASSIGNED_TEAM_SLUG])

\* select(TaskType).where(TaskType.team_id == target_team.id)
TaskTypesOfTeam(types, team_id) == {id \in DOMAIN types : types[id].team_id = team_id}

\* mutant: the UPDATE moves the tasks to the target team and its task type
\* but keeps their status
ReassignKeepStatus(rows, team_id, target_team_id, target_type_id, new_status) ==
    [t \in DOMAIN rows |->
        IF rows[t].team_id = team_id
        THEN [rows[t] EXCEPT !.team_id = target_team_id,
                             !.task_type_id = target_type_id]
        ELSE rows[t]]

\* update(Task).where(Task.team_id == team_id).values(team_id, task_type_id, status)
ReassignTasks(rows, team_id, target_team_id, target_type_id, new_status) ==
    [t \in DOMAIN rows |->
        IF rows[t].team_id = team_id
        THEN [rows[t] EXCEPT !.team_id = target_team_id,
                             !.task_type_id = target_type_id,
                             !.status = new_status]
        ELSE rows[t]]

\* await db.delete(team): Team.task_types has cascade="all, delete-orphan"
WithoutTeam(types, team_id) ==
    [id \in DOMAIN types \ TaskTypesOfTeam(types, team_id) |-> types[id]]

\* the flush of the deletes fails when a task still references the team
\* (tasks.team_id) or one of its task types (tasks.task_type_id): both
\* columns are NOT NULL with ondelete RESTRICT
StillReferenced(rows, types, team_id) ==
    \E t \in DOMAIN rows :
        \/ rows[t].team_id = team_id
        \/ rows[t].task_type_id \in TaskTypesOfTeam(types, team_id)

delete_team ==
    /\ pc = "received"
    /\ UNCHANGED <<sessions, project_dependencies, task_dependencies, github_links>>
    /\ request.op = "delete_team"
    /\ pc' = "responded"
    /\ before' = Db
    /\ UNCHANGED <<project_types, projects, request, attempt>>
    /\ LET team_id == request.team_id
           query == request.query
           reassign_given == DictHas(query, "reassign_tasks_to")
           reassign_tasks_to == DictGet(query, "reassign_tasks_to", team_id)
       IN IF team_id \notin DOMAIN teams
          THEN /\ response' = HTTPException(404, [msg |-> "Team not found"])
               /\ UNCHANGED <<task_types, tasks, teams, seq>>
          ELSE IF teams[team_id].slug = UNASSIGNED_TEAM_SLUG
          THEN /\ response' = HTTPException(400, [msg |-> "Cannot delete the Unassigned team"])
               /\ UNCHANGED <<task_types, tasks, teams, seq>>
          ELSE IF reassign_given /\ reassign_tasks_to \notin DOMAIN teams
          THEN /\ response' = HTTPException(400,
                        [msg |-> "Target team for reassignment not found"])
               /\ UNCHANGED <<task_types, tasks, teams, seq>>
          ELSE IF reassign_given /\ reassign_tasks_to = team_id
          THEN /\ response' = HTTPException(400,
                        [msg |-> "Cannot reassign tasks to the team being deleted"])
               /\ UNCHANGED <<task_types, tasks, teams, seq>>
          ELSE LET team_created == ~reassign_given /\ UnassignedTeams(teams) = {}
                   teams_1 == IF reassign_given THEN teams
                              ELSE WithUnassignedTeam(teams, seq.teams + 1)
                   target_team_id ==
                        IF reassign_given THEN reassign_tasks_to
                        ELSE CHOOSE id \in UnassignedTeams(teams_1) : TRUE
                   candidates == TaskTypesOfTeam(task_types, target_team_id)
                   type_created == candidates = {}
                   types_1 ==
                        IF type_created
                        THEN InsertRow(task_types, seq.task_types + 1,
                                [team_id |-> target_team_id,
                                 workflow |-> DefaultTaskTypeWorkflow])
                        ELSE task_types
               IN \* .limit(1) without an order: any task type of the target team
                  \E target_type_id \in TaskTypesOfTeam(types_1, target_team_id) :
                     LET tasks_1 == ReassignTasks(tasks, team_id, target_team_id,
                                        target_type_id,
                                        DefaultStatus(types_1[target_type_id].workflow))
                         raised == StillReferenced(tasks_1, types_1, team_id)
                     IN /\ seq' = [seq EXCEPT
                                !.teams = IF team_created THEN @ + 1 ELSE @,
                                !.task_types = IF type_created THEN @ + 1 ELSE @]
                        /\ tasks' = SessionOutcome(raised, tasks, tasks_1)
                        /\ task_types' = SessionOutcome(raised, task_types,
                                            WithoutTeam(types_1, team_id))
                        /\ teams' = SessionOutcome(raised, teams, DeleteRow(teams_1, team_id))
                        /\ response' =
                              IF raised THEN InternalServerError
                              ELSE [status_code |-> 200,
                                    body |-> [message |-> "Team deleted successfully",
                                              target_team_id |-> target_team_id]]

(***************************************************************************)
(* Requests, and the life of one request.                                  *)
(***************************************************************************)
\* PATCH /project-types/{project_type_id}/workflow
UpdateProjectTypeWorkflowRequests ==
    [op : {"update_project_type_workflow"}, project_type_id : TypeIds,
     workflow : Workflows, status_mappings : StatusMappings]

\* POST /project-types/{project_type_id}/migrate
MigrateProjectsRequests ==
    [op : {"migrate_projects_to_type"}, project_type_id : TypeIds,
     target_project_type_id : TypeIds, status_mappings : StatusMappings]

\* PATCH /task-types/{task_type_id}/workflow
UpdateTaskTypeWorkflowRequests ==
    [op : {"update_task_type_workflow"}, task_type_id : TypeIds,
     workflow : Workflows, status_mappings : StatusMappings]

\* POST /task-types/{task_type_id}/migrate
MigrateTasksRequests ==
    [op : {"migrate_tasks_to_type"}, task_type_id : TypeIds,
     target_task_type_id : TypeIds, status_mappings : StatusMappings]

\* DELETE /project-types/{project_type_id}
DeleteProjectTypeRequests == [op : {"delete_project_type"}, project_type_id : TypeIds]

\* DELETE /task-types/{task_type_id}
DeleteTaskTypeRequests == [op : {"delete_task_type"}, task_type_id : TypeIds]

\* model_dump(exclude_unset=True): the fields the request sets, as a dict;
\* each of the given fields (name, set of values) is set or left out
RECURSIVE UpdateData(_)
UpdateData(fields) ==
    IF fields = <<>> THEN {<<>>}
    ELSE LET rest == UpdateData(Tail(fields))
         IN rest \cup {<<<<Head(fields)[1], v>>>> \o d : v \in Head(fields)[2], d \in rest}

\* PATCH /project-types/{project_type_id}: ProjectTypeUpdate
UpdateProjectTypeRequests(workflows) ==
    [op : {"update_project_type"}, project_type_id : TypeIds,
     update_data : UpdateData(<<<<"workflow", workflows>>>>)]

\* PATCH /task-types/{task_type_id}: TaskTypeUpdate
UpdateTaskTypeRequests(workflows) ==
    [op : {"update_task_type"}, task_type_id : TypeIds,
     update_data : UpdateData(<<<<"workflow", workflows>>>>)]

\* POST /projects: ProjectCreate
CreateProjectRequests == [op : {"create_project"}, project_type_id : TypeIds]

\* PATCH /projects/{project_id}: ProjectUpdate
UpdateProjectRequests ==
    [op : {"update_project"}, project_id : RowIds,
     update_data : UpdateData(<<<<"status", Statuses>>>>)]

\* POST /tasks: TaskCreate
CreateTaskRequests == [op : {"create_task"}, team_id : TeamIds, task_type_id : TypeIds]

\* PATCH /tasks/{task_id}: TaskUpdate
UpdateTaskRequests ==
    [op : {"update_task"}, task_id : RowIds,
     update_data : UpdateData(<<<<"team_id", TeamIds>>, <<"task_type_id", TypeIds>>,
                               <<"status", Statuses>>>>)]

\* DELETE /tasks/{task_id}
DeleteTaskRequests(ids) == [op : {"delete_task"}, task_id : ids]

\* DELETE /teams/{team_id}?reassign_tasks_to=
DeleteTeamRequests ==
    [op : {"delete_team"}, team_id : TeamIds,
     query : UpdateData(<<<<"reassign_tasks_to", TeamIds>>>>)]

Requests ==
    UpdateProjectTypeWorkflowRequests \cup MigrateProjectsRequests
        \cup UpdateTaskTypeWorkflowRequests \cup MigrateTasksRequests

\* a request out of requests arrives at the router
ReceiveOneOf(requests) ==
    /\ pc = "idle"
    /\ UNCHANGED <<sessions, project_dependencies, task_dependencies, github_links>>
    /\ \E r \in requests : request' = r
    /\ pc' = "received"
    /\ attempt' = 1
    /\ UNCHANGED <<project_types, projects, task_types, tasks, teams, seq, response, before>>

Receive == ReceiveOneOf(Requests)

\* a migration request arrives
ReceiveMigration == ReceiveOneOf(MigrateProjectsRequests \cup MigrateTasksRequests)

\* a type deletion request arrives
ReceiveTypeDeletion == ReceiveOneOf(DeleteProjectTypeRequests \cup DeleteTaskTypeRequests)

\* the client sends the request it just had accepted once more
Resubmit ==
    /\ pc = "responded"
    /\ UNCHANGED <<sessions, project_dependencies, task_dependencies, github_links>>
    /\ response.status_code = 200
    /\ attempt = 1
    /\ pc' = "received"
    /\ attempt' = 2
    /\ UNCHANGED <<project_types, projects, task_types, tasks, teams, seq, request, response, before>>

(***************************************************************************)
(* The database when the request arrives: the types that exist, each with  *)
(* a workflow, and NumRows projects and tasks, each of an existing type    *)
(* and in a status of its type's workflow (in "Backlog", the status a new  *)
(* row gets, when that workflow is empty).  Type 1 always exists, type 2   *)
(* may not.  Task type i belongs to team i, and task r was created as the  *)
(* r-th task.                                                              *)
(***************************************************************************)
InitWorkflows == {<<>>, <<"Backlog", "Doing">>, <<"Doing", "Done">>}

\* Team.slug is unique; "unassigned" is the slug of the Unassigned team
TeamSlug(id) == "team-" \o ToString(id)

InitStatuses(workflow) == IF workflow = <<>> THEN {"Backlog"} ELSE Range(workflow)

Init ==
    /\ pc = "idle"
    /\ sessions = <<>>
    /\ project_dependencies = EmptyBag
    /\ task_dependencies = EmptyBag
    /\ github_links = <<>>
    /\ request = NoRequest
    /\ response = NoResponse
    /\ attempt = 0
    /\ \E ids \in {{1}, {1, 2}} :
       \E wf \in [ids -> InitWorkflows] :
       \E type_of \in [RowIds -> ids] :
       \E status_of \in [RowIds -> Statuses] :
          /\ \A r \in RowIds : status_of[r] \in InitStatuses(wf[type_of[r]])
          /\ project_types = [id \in ids |-> [workflow |-> wf[id]]]
          /\ projects = [r \in RowIds |->
                [project_type_id |-> type_of[r], status |-> status_of[r]]]
          /\ task_types = [id \in ids |-> [team_id |-> id, workflow |-> wf[id]]]
          /\ tasks = [r \in RowIds |->
                [task_type_id |-> type_of[r], team_id |-> type_of[r],
                 status |-> status_of[r], display_id |-> DisplayId(r)]]
          /\ teams = [id \in ids |-> [slug |-> TeamSlug(id)]]
    /\ seq = [project_types |-> 2, projects |-> NumRows, task_types |-> 2,
              tasks |-> NumRows, teams |-> 2]
    /\ before = Db

Next ==
    \/ Receive
    \/ update_project_type_workflow
    \/ migrate_projects_to_type
    \/ update_task_type_workflow
    \/ migrate_tasks_to_type
    \/ Resubmit

Spec == Init /\ [][Next]_vars

\* the type migration endpoints alone
MigrationNext ==
    \/ ReceiveMigration
    \/ migrate_projects_to_type
    \/ migrate_tasks_to_type
    \/ Resubmit

MigrationSpec == Init /\ [][MigrationNext]_vars

\* the type deletion endpoints alone
TypeDeletionNext ==
    \/ ReceiveTypeDeletion
    \/ delete_project_type
    \/ delete_task_type
    \/ Resubmit

TypeDeletionSpec == Init /\ [][TypeDeletionNext]_vars

(***************************************************************************)
(* The team deletion endpoint alone.  The database when the request        *)
(* arrives: team 1, maybe team 2, and maybe the Unassigned team as team 3; *)
(* one or two task types, each of an existing team, so that a team may     *)
(* have no task type; NumRows tasks, each of an existing task type, of     *)
(* that type's team and in a status of that type's workflow.               *)
(***************************************************************************)
UnassignedId == 3

TeamInit ==
    /\ pc = "idle"
    /\ sessions = <<>>
    /\ project_dependencies = EmptyBag
    /\ task_dependencies = EmptyBag
    /\ github_links = <<>>
    /\ request = NoRequest
    /\ response = NoResponse
    /\ attempt = 0
    /\ project_types = <<>>
    /\ projects = <<>>
    /\ \E team_ids \in {{1}, {1, 2}, {1, UnassignedId}, {1, 2, UnassignedId}} :
       \E ids \in {{1}, {1, 2}} :
       \E team_of \in [ids -> team_ids] :
       \E wf \in [ids -> InitWorkflows] :
       \E type_of \in [RowIds -> ids] :
       \E status_of \in [RowIds -> Statuses] :
          /\ \A r \in RowIds : status_of[r] \in InitStatuses(wf[type_of[r]])
          /\ teams = [id \in team_ids |->
                [slug |-> IF id = UnassignedId THEN UNASSIGNED_TEAM_SLUG ELSE TeamSlug(id)]]
          /\ task_types = [id \in ids |-> [team_id |-> team_of[id], workflow |-> wf[id]]]
          /\ tasks = [r \in RowIds |->
                [task_type_id |-> type_of[r], team_id |-> team_of[type_of[r]],
                 status |-> status_of[r], display_id |-> DisplayId(r)]]
    /\ seq = [project_types |-> 0, projects |-> 0, task_types |-> 2,
              tasks |-> NumRows, teams |-> UnassignedId]
    /\ before = Db

\* a team deletion request arrives
ReceiveTeamDeletion == ReceiveOneOf(DeleteTeamRequests)

TeamDeletionNext ==
    \/ ReceiveTeamDeletion
    \/ delete_team
    \/ Resubmit

TeamDeletionSpec == TeamInit /\ [][TeamDeletionNext]_vars

(***************************************************************************)
(* A run of many requests, one after the other, against a small database:  *)
(* either two project types and a project, or two teams, two task types    *)
(* (both of team 1, or one of each team) and a task.  Every workflow is    *)
(* non-empty and without duplicates and every status is in its type's      *)
(* workflow.  Rows are created while the table has fewer than NumRows.     *)
(***************************************************************************)
LifeInitWorkflows == {<<"Backlog", "Doing">>, <<"Doing", "Done">>}

\* the workflows the requests of the run propose
LifeWorkflows == {<<>>, <<"Done">>, <<"Backlog", "Doing">>, <<"Doing", "Doing">>}

LifeMappings == SeqsUpTo(StatusMigration, MaxLifeMappings)

LifeRequests ==
    [op : {"update_project_type_workflow"}, project_type_id : TypeIds,
     workflow : LifeWorkflows, status_mappings : LifeMappings]
    \cup [op : {"update_task_type_workflow"}, task_type_id : TypeIds,
          workflow : LifeWorkflows, status_mappings : LifeMappings]
    \cup [op : {"migrate_projects_to_type"}, project_type_id : TypeIds,
          target_project_type_id : TypeIds, status_mappings : LifeMappings]
    \cup [op : {"migrate_tasks_to_type"}, task_type_id : TypeIds,
          target_task_type_id : TypeIds, status_mappings : LifeMappings]
    \cup UpdateProjectTypeRequests(LifeWorkflows) \cup UpdateTaskTypeRequests(LifeWorkflows)
    \cup DeleteProjectTypeRequests \cup DeleteTaskTypeRequests
    \cup CreateProjectRequests \cup UpdateProjectRequests
    \cup CreateTaskRequests \cup UpdateTaskRequests
    \cup DeleteTeamRequests

\* the tables are bounded: no creation request arrives when the table is full
TableHasRoom(r) ==
    /\ r.op = "create_project" => seq.projects < NumRows
    /\ r.op = "create_task" => seq.tasks < NumRows

ReceiveLife == ReceiveOneOf({r \in LifeRequests : TableHasRoom(r)})

\* the response is delivered; the next request may arrive
Return ==
    /\ pc = "responded"
    /\ UNCHANGED <<sessions, project_dependencies, task_dependencies, github_links>>
    /\ pc' = "idle"
    /\ request' = NoRequest
    /\ response' = NoResponse
    /\ attempt' = 0
    /\ before' = Db
    /\ UNCHANGED <<project_types, projects, task_types, tasks, teams, seq>>

LifeInit ==
    /\ pc = "idle"
    /\ sessions = <<>>
    /\ project_dependencies = EmptyBag
    /\ task_dependencies = EmptyBag
    /\ github_links = <<>>
    /\ request = NoRequest
    /\ response = NoResponse
    /\ attempt = 0
    /\ \E wf \in [TypeIds -> LifeInitWorkflows] :
       \E status \in Range(wf[1]) :
          \/ /\ project_types = [id \in TypeIds |-> [workflow |-> wf[id]]]
             /\ projects = [r \in {1} |-> [project_type_id |-> 1, status |-> status]]
             /\ task_types = <<>>
             /\ tasks = <<>>
             /\ teams = <<>>
             /\ seq = [project_types |-> 2, projects |-> 1, task_types |-> 0,
                       tasks |-> 0, teams |-> 0]
          \/ \E team_of_2 \in {1, 2} :
             /\ project_types = <<>>
             /\ projects = <<>>
             /\ teams = [id \in {1, 2} |-> [slug |-> TeamSlug(id)]]
             /\ task_types = [id \in TypeIds |->
                    [team_id |-> IF id = 1 THEN 1 ELSE team_of_2, workflow |-> wf[id]]]
             /\ tasks = [r \in {1} |->
                    [task_type_id |-> 1, team_id |-> 1, status |-> status,
                     display_id |-> DisplayId(r)]]
             /\ seq = [project_types |-> 0, projects |-> 0, task_types |-> 2,
                       tasks |-> 1, teams |-> 2]
    /\ before = Db

LifeNext ==
    \/ ReceiveLife
    \/ update_project_type_workflow
    \/ migrate_projects_to_type
    \/ update_project_type
    \/ delete_project_type
    \/ create_project
    \/ update_project
    \/ update_task_type_workflow
    \/ migrate_tasks_to_type
    \/ update_task_type
    \/ delete_task_type
    \/ create_task
    \/ update_task
    \/ delete_team
    \/ Return

LifeSpec == LifeInit /\ [][LifeNext]_vars

(***************************************************************************)
(* Tasks created and deleted one after the other.  The run starts with an  *)
(* empty tasks table, one team and one task type of it; the sequence of    *)
(* tasks.id hands out MaxTaskSeq ids.                                      *)
(***************************************************************************)
MaxTaskSeq == 4

TaskIds == 1..MaxTaskSeq

DisplayIdRequests == CreateTaskRequests \cup DeleteTaskRequests(TaskIds)

ReceiveTaskRequest ==
    ReceiveOneOf({r \in DisplayIdRequests : r.op = "create_task" => seq.tasks < MaxTaskSeq})

DisplayIdInit ==
    /\ pc = "idle"
    /\ sessions = <<>>
    /\ project_dependencies = EmptyBag
    /\ task_dependencies = EmptyBag
    /\ github_links = <<>>
    /\ request = NoRequest
    /\ response = NoResponse
    /\ attempt = 0
    /\ project_types = <<>>
    /\ projects = <<>>
    /\ teams = [id \in {1} |-> [slug |-> TeamSlug(id)]]
    /\ \E workflow \in InitWorkflows :
          task_types = [id \in {1} |-> [team_id |-> 1, workflow |-> workflow]]
    /\ tasks = <<>>
    /\ seq = [project_types |-> 0, projects |-> 0, task_types |-> 1, tasks |-> 0, teams |-> 1]
    /\ before = Db

DisplayIdNext ==
    \/ ReceiveTaskRequest
    \/ create_task
    \/ delete_task
    \/ Return

DisplayIdSpec == DisplayIdInit /\ [][DisplayIdNext]_vars

(***************************************************************************)
(* A workflow update of a task type and an update_task served at the same  *)
(* time, each in its own database session.  A step is one database         *)
(* statement (with the checks the handler makes on its result) or the      *)
(* commit of a session; a statement reads what has been committed.  The    *)
(* workflow update has no status_mappings, so its migration loop issues no *)
(* UPDATE.                                                                 *)
(***************************************************************************)
\* the session of the request is at step step
At(session, step) == sessions[session].pc = step

\* the session moves on to step with the locals changed as given
Goto(session, step, changes) ==
    sessions' = [sessions EXCEPT ![session] =
        [f \in DOMAIN @ |->
            IF f = "pc" THEN step
            ELSE IF f \in DOMAIN changes THEN changes[f] ELSE @[f]]]

\* the handler raises or returns: the session ends with the response
Respond(session, r) == Goto(session, "done", [response |-> r])

\* only sessions changes
SessionStep ==
    UNCHANGED <<project_types, projects, task_types, tasks, teams, seq, pc, request,
                response, attempt, before, project_dependencies, task_dependencies,
                github_links>>

\* the workflows the concurrent workflow update may propose
RaceWorkflows == {<<>>, <<"Doing">>, <<"Done">>, <<"Backlog", "Doing">>}

RaceInit ==
    /\ pc = "idle"
    /\ request = NoRequest
    /\ response = NoResponse
    /\ attempt = 0
    /\ project_types = <<>>
    /\ projects = <<>>
    /\ project_dependencies = EmptyBag
    /\ task_dependencies = EmptyBag
    /\ github_links = <<>>
    /\ teams = [id \in {1} |-> [slug |-> TeamSlug(id)]]
    /\ \E workflow \in LifeInitWorkflows :
       \E status_of \in [RowIds -> Range(workflow)] :
          /\ task_types = [id \in {1} |-> [team_id |-> 1, workflow |-> workflow]]
          /\ tasks = [r \in RowIds |->
                [task_type_id |-> 1, team_id |-> 1, status |-> status_of[r],
                 display_id |-> DisplayId(r)]]
    /\ seq = [project_types |-> 0, projects |-> 0, task_types |-> 1,
              tasks |-> NumRows, teams |-> 1]
    /\ \E task_type_id \in TypeIds :
       \E workflow \in RaceWorkflows :
       \E task_id \in RowIds :
       \E status \in Statuses :
          sessions =
            [workflow_update |->
                [pc |-> "select",
                 request |-> [op |-> "update_task_type_workflow",
                              task_type_id |-> task_type_id, workflow |-> workflow,
                              status_mappings |-> <<>>],
                 old_workflow |-> <<>>, unchecked |-> {}, response |-> NoResponse],
             task_update |->
                [pc |-> "select",
                 request |-> [op |-> "update_task", task_id |-> task_id,
                              update_data |-> <<<<"status", status>>>>],
                 task_type_id |-> 0, workflow |-> <<>>, response |-> NoResponse]]
    /\ before = Db

\* update_task_type_workflow: select(TaskType).where(TaskType.id == task_type_id)
WorkflowUpdateSelect ==
    /\ At("workflow_update", "select")
    /\ SessionStep
    /\ LET r == sessions.workflow_update.request
       IN IF r.task_type_id \notin DOMAIN task_types
          THEN Respond("workflow_update",
                       HTTPException(404, [msg |-> "Task type not found"]))
          ELSE LET old_workflow == task_types[r.task_type_id].workflow
                   status_map == BuildStatusMap(r.status_mappings)
               IN Goto("workflow_update", "count",
                    [old_workflow |-> old_workflow,
                     unchecked |->
                        {removed \in RemovedStatuses(old_workflow, r.workflow) :
                            ~DictHas(status_map, removed)}])

\* one turn of the loop over the removed statuses: select(func.count())
WorkflowUpdateCount ==
    /\ At("workflow_update", "count")
    /\ SessionStep
    /\ LET r == sessions.workflow_update.request
       IN \E removed \in sessions.workflow_update.unchecked :
            LET count == CountTasks(tasks, r.task_type_id, removed)
            IN IF count > 0
               THEN Respond("workflow_update",
                        HTTPException(400, [msg |-> "Status has tasks",
                                            status |-> removed, count |-> count]))
               ELSE Goto("workflow_update", "count",
                        [unchecked |-> sessions.workflow_update.unchecked \ {removed}])

\* after the loop: the targets are validated, the migration loop runs (no
\* entry), task_type.workflow is assigned and flushed, the response is built
WorkflowUpdateFlush ==
    /\ At("workflow_update", "count")
    /\ sessions.workflow_update.unchecked = {}
    /\ SessionStep
    /\ LET r == sessions.workflow_update.request
           status_map == BuildStatusMap(r.status_mappings)
       IN IF InvalidTargets(status_map, Range(r.workflow)) # {}
          THEN Respond("workflow_update",
                    HTTPException(400, [msg |-> "Target status not in new workflow",
                        status |-> FirstInvalidTarget(status_map, Range(r.workflow))]))
          ELSE Goto("workflow_update", "commit",
                    [response |->
                        IF ~WorkflowValidates(r.workflow) THEN InternalServerError
                        ELSE [status_code |-> 200,
                              body |-> [id |-> r.task_type_id, workflow |-> r.workflow]]])

\* the session of the workflow update ends: commit, or rollback when the
\* handler raised
WorkflowUpdateCommit ==
    /\ At("workflow_update", "commit")
    /\ LET r == sessions.workflow_update.request
           raised == sessions.workflow_update.response.status_code # 200
       IN task_types' = SessionOutcome(raised, task_types,
                            [task_types EXCEPT ![r.task_type_id].workflow = r.workflow])
    /\ Goto("workflow_update", "done", <<>>)
    /\ UNCHANGED <<project_types, projects, tasks, teams, seq, pc, request, response,
                   attempt, before, project_dependencies, task_dependencies, github_links>>

\* update_task: select(Task).where(Task.id == task_id)
TaskUpdateSelectTask ==
    /\ At("task_update", "select")
    /\ SessionStep
    /\ LET r == sessions.task_update.request
       IN IF r.task_id \notin DOMAIN tasks
          THEN Respond("task_update", HTTPException(404, [msg |-> "Task not found"]))
          ELSE Goto("task_update", "select_type",
                    [task_type_id |-> tasks[r.task_id].task_type_id])

\* selectinload(Task.task_type): the second SELECT of the query
TaskUpdateSelectType ==
    /\ At("task_update", "select_type")
    /\ SessionStep
    /\ Goto("task_update", "flush",
            [workflow |-> task_types[sessions.task_update.task_type_id].workflow])

\* the status is validated against the workflow that was loaded, the fields
\* are set and flushed
TaskUpdateFlush ==
    /\ At("task_update", "flush")
    /\ SessionStep
    /\ LET r == sessions.task_update.request
           task_in == r.update_data
       IN IF /\ DictHas(task_in, "status")
             /\ DictGet(task_in, "status", "") \notin Range(sessions.task_update.workflow)
          THEN Respond("task_update", HTTPException(400, [msg |-> "Invalid status"]))
          ELSE Goto("task_update", "commit",
                    [response |-> [status_code |-> 200, body |-> [id |-> r.task_id]]])

\* the session of update_task commits
TaskUpdateCommit ==
    /\ At("task_update", "commit")
    /\ LET r == sessions.task_update.request
       IN tasks' = SessionOutcome(FALSE, tasks,
                        [tasks EXCEPT ![r.task_id] = ApplyTaskUpdate(@, r.update_data)])
    /\ Goto("task_update", "done", <<>>)
    /\ UNCHANGED <<project_types, projects, task_types, teams, seq, pc, request, response,
                   attempt, before, project_dependencies, task_dependencies, github_links>>

RaceNext ==
    \/ WorkflowUpdateSelect
    \/ WorkflowUpdateCount
    \/ WorkflowUpdateFlush
    \/ WorkflowUpdateCommit
    \/ TaskUpdateSelectTask
    \/ TaskUpdateSelectType
    \/ TaskUpdateFlush
    \/ TaskUpdateCommit

RaceSpec == RaceInit /\ [][RaceNext]_vars

(***************************************************************************)
(* Two create_task requests served at the same time, each in its own       *)
(* session.  The tasks table holds some of the NumRows tasks created so    *)
(* far; teams and task types do not change.                                *)
(***************************************************************************)
CreateSessions == {"first", "second"}

OtherSession(session) == CHOOSE other \in CreateSessions : other # session

CreateRaceInit ==
    /\ pc = "idle"
    /\ request = NoRequest
    /\ response = NoResponse
    /\ attempt = 0
    /\ project_types = <<>>
    /\ projects = <<>>
    /\ project_dependencies = EmptyBag
    /\ task_dependencies = EmptyBag
    /\ github_links = <<>>
    /\ teams = [id \in {1} |-> [slug |-> TeamSlug(id)]]
    /\ \E workflow \in InitWorkflows :
          task_types = [id \in {1} |-> [team_id |-> 1, workflow |-> workflow]]
    /\ \E ids \in SUBSET RowIds :
          tasks = [r \in ids |->
                [task_type_id |-> 1, team_id |-> 1,
                 status |-> DefaultStatus(task_types[1].workflow),
                 display_id |-> DisplayId(r)]]
    /\ seq = [project_types |-> 0, projects |-> 0, task_types |-> 1,
              tasks |-> NumRows, teams |-> 1]
    /\ \E requests \in [CreateSessions -> CreateTaskRequests] :
          sessions = [s \in CreateSessions |->
                [pc |-> "validate", request |-> requests[s], id |-> 0,
                 display_id |-> "", status |-> "", response |-> NoResponse]]
    /\ before = Db

\* create_task: the team and the task type are selected
CreateTaskValidate(session) ==
    /\ At(session, "validate")
    /\ SessionStep
    /\ LET r == sessions[session].request
       IN IF r.team_id \notin DOMAIN teams
          THEN Respond(session, HTTPException(400, [msg |-> "Team not found"]))
          ELSE IF ~TaskTypeOfTeam(task_types, r.task_type_id, r.team_id)
          THEN Respond(session,
                       HTTPException(400, [msg |-> "Invalid task type for this team"]))
          ELSE Goto(session, "generate",
                    [status |-> DefaultStatus(task_types[r.task_type_id].workflow)])

\* display_id = await generate_display_id(db): select(func.max(Task.id))
CreateTaskGenerate(session) ==
    /\ At(session, "generate")
    /\ SessionStep
    /\ Goto(session, "flush", [display_id |-> generate_display_id(tasks)])

\* db.add(task); await db.flush(): the INSERT takes the next id of the
\* sequence; it waits while another session holds an uncommitted row with
\* the same display_id, and fails when a committed row has it
CreateTaskFlush(session) ==
    /\ At(session, "flush")
    /\ ~(/\ At(OtherSession(session), "commit")
         /\ sessions[OtherSession(session)].response.status_code = 201
         /\ sessions[OtherSession(session)].display_id = sessions[session].display_id)
    /\ LET r == sessions[session].request
           id == seq.tasks + 1
           display_id == sessions[session].display_id
       IN /\ seq' = [seq EXCEPT !.tasks = id]
          /\ Goto(session, "commit",
                  [id |-> id,
                   response |->
                      IF DisplayIdTaken(tasks, display_id) THEN InternalServerError
                      ELSE [status_code |-> 201,
                            body |-> [id |-> id, display_id |-> display_id,
                                      team_id |-> r.team_id,
                                      task_type_id |-> r.task_type_id,
                                      status |-> sessions[session].status]]])
    /\ UNCHANGED <<project_types, projects, task_types, tasks, teams, pc, request,
                   response, attempt, before, project_dependencies, task_dependencies,
                   github_links>>

\* the session of create_task ends: commit, or rollback when the INSERT failed
CreateTaskCommit(session) ==
    /\ At(session, "commit")
    /\ LET r == sessions[session].request
           raised == sessions[session].response.status_code # 201
       IN tasks' = SessionOutcome(raised, tasks,
                        InsertRow(tasks, sessions[session].id,
                            [task_type_id |-> r.task_type_id, team_id |-> r.team_id,
                             status |-> sessions[session].status,
                             display_id |-> sessions[session].display_id]))
    /\ Goto(session, "done", <<>>)
    /\ UNCHANGED <<project_types, projects, task_types, teams, seq, pc, request, response,
                   attempt, before, project_dependencies, task_dependencies, github_links>>

CreateRaceNext ==
    \/ \E session \in CreateSessions : CreateTaskValidate(session)
    \/ \E session \in CreateSessions : CreateTaskGenerate(session)
    \/ \E session \in CreateSessions : CreateTaskFlush(session)
    \/ \E session \in CreateSessions : CreateTaskCommit(session)

CreateRaceSpec == CreateRaceInit /\ [][CreateRaceNext]_vars

(***************************************************************************)
(* Dependencies between projects and between tasks.  A row of the          *)
(* association table project_dependencies (task_dependencies) says that    *)
(* project_id (task_id) depends on depends_on_id; (project_id,             *)
(* depends_on_id) is the primary key of the table.                         *)
(***************************************************************************)
\* the ids a dependency request names: the rows and one id without a row
DependencyIds == 1..(NumRows + 1)

\* POST /projects/{project_id}/dependencies: AddProjectDependencyRequest
AddProjectDependencyRequests ==
    [op : {"add_project_dependency"}, project_id : DependencyIds,
     depends_on_id : DependencyIds]

\* DELETE /projects/{project_id}/dependencies/{depends_on_id}
RemoveProjectDependencyRequests ==
    [op : {"remove_project_dependency"}, project_id : DependencyIds,
     depends_on_id : DependencyIds]

\* POST /tasks/{task_id}/dependencies: AddTaskDependencyRequest
AddTaskDependencyRequests ==
    [op : {"add_task_dependency"}, task_id : DependencyIds, depends_on_id : DependencyIds]

\* DELETE /tasks/{task_id}/dependencies/{depends_on_id}
RemoveTaskDependencyRequests ==
    [op : {"remove_task_dependency"}, task_id : DependencyIds,
     depends_on_id : DependencyIds]

\* dependencies.append(depends_on) and db.flush(): INSERT of the row
\* (id, depends_on_id)
InsertDependency(dependencies, id, depends_on_id) ==
    dependencies (+) SetToBag({<<id, depends_on_id>>})

\* selectinload(...dependencies): the ids the entity id depends on
DependenciesOf(dependencies, id) ==
    {d[2] : d \in {e \in BagToSet(dependencies) : e[1] = id}}

\* mutant: the self-dependency check is missing
add_project_dependency_of_any ==
    /\ pc = "received"
    /\ UNCHANGED <<sessions, task_dependencies, github_links>>
    /\ request.op = "add_project_dependency"
    /\ pc' = "responded"
    /\ before' = Db
    /\ UNCHANGED <<project_types, projects, task_types, tasks, teams, seq, request, attempt>>
    /\ LET project_id == request.project_id
           depends_on_id == request.depends_on_id
       IN IF project_id \notin DOMAIN projects
          THEN /\ response' = HTTPException(404, [msg |-> "Project not found"])
               /\ UNCHANGED project_dependencies
          ELSE IF depends_on_id \notin DOMAIN projects
          THEN /\ response' = HTTPException(400, [msg |-> "Dependency project not found"])
               /\ UNCHANGED project_dependencies
          ELSE IF depends_on_id \in DependenciesOf(project_dependencies, project_id)
          THEN /\ response' = HTTPException(400, [msg |-> "Dependency already exists"])
               /\ UNCHANGED project_dependencies
          ELSE /\ project_dependencies' =
                      InsertDependency(project_dependencies, project_id, depends_on_id)
               /\ response' = [status_code |-> 200,
                               body |-> [message |-> "Dependency added"]]

add_project_dependency ==
    /\ pc = "received"
    /\ UNCHANGED <<sessions, task_dependencies, github_links>>
    /\ request.op = "add_project_dependency"
    /\ pc' = "responded"
    /\ before' = Db
    /\ UNCHANGED <<project_types, projects, task_types, tasks, teams, seq, request, attempt>>
    /\ LET project_id == request.project_id
           depends_on_id == request.depends_on_id
       IN IF project_id \notin DOMAIN projects
          THEN /\ response' = HTTPException(404, [msg |-> "Project not found"])
               /\ UNCHANGED project_dependencies
          ELSE IF depends_on_id \notin DOMAIN projects
          THEN /\ response' = HTTPException(400, [msg |-> "Dependency project not found"])
               /\ UNCHANGED project_dependencies
          ELSE IF project_id = depends_on_id
          THEN /\ response' = HTTPException(400, [msg |-> "Project cannot depend on itself"])
               /\ UNCHANGED project_dependencies
          ELSE IF depends_on_id \in DependenciesOf(project_dependencies, project_id)
          THEN /\ response' = HTTPException(400, [msg |-> "Dependency already exists"])
               /\ UNCHANGED project_dependencies
          ELSE /\ project_dependencies' =
                      InsertDependency(project_dependencies, project_id, depends_on_id)
               /\ response' = [status_code |-> 200,
                               body |-> [message |-> "Dependency added"]]

remove_project_dependency ==
    /\ pc = "received"
    /\ UNCHANGED <<sessions, task_dependencies, github_links>>
    /\ request.op = "remove_project_dependency"
    /\ pc' = "responded"
    /\ before' = Db
    /\ UNCHANGED <<project_types, projects, task_types, tasks, teams, seq, request, attempt>>
    /\ LET project_id == request.project_id
           depends_on_id == request.depends_on_id
       IN IF project_id \notin DOMAIN projects
          THEN /\ response' = HTTPException(404, [msg |-> "Project not found"])
               /\ UNCHANGED project_dependencies
          ELSE IF depends_on_id \notin DependenciesOf(project_dependencies, project_id)
          THEN /\ response' = HTTPException(404, [msg |-> "Dependency not found"])
               /\ UNCHANGED project_dependencies
          ELSE /\ project_dependencies' =
                      project_dependencies (-) SetToBag({<<project_id, depends_on_id>>})
               /\ response' = [status_code |-> 200,
                               body |-> [message |-> "Dependency removed"]]

add_task_dependency ==
    /\ pc = "received"
    /\ UNCHANGED <<sessions, project_dependencies, github_links>>
    /\ request.op = "add_task_dependency"
    /\ pc' = "responded"
    /\ before' = Db
    /\ UNCHANGED <<project_types, projects, task_types, tasks, teams, seq, request, attempt>>
    /\ LET task_id == request.task_id
           depends_on_id == request.depends_on_id
       IN IF task_id \notin DOMAIN tasks
          THEN /\ response' = HTTPException(404, [msg |-> "Task not found"])
               /\ UNCHANGED task_dependencies
          ELSE IF depends_on_id \notin DOMAIN tasks
          THEN /\ response' = HTTPException(400, [msg |-> "Dependency task not found"])
               /\ UNCHANGED task_dependencies
          ELSE IF task_id = depends_on_id
          THEN /\ response' = HTTPException(400, [msg |-> "Task cannot depend on itself"])
               /\ UNCHANGED task_dependencies
          ELSE IF depends_on_id \in DependenciesOf(task_dependencies, task_id)
          THEN /\ response' = HTTPException(400, [msg |-> "Dependency already exists"])
               /\ UNCHANGED task_dependencies
          ELSE /\ task_dependencies' =
                      InsertDependency(task_dependencies, task_id, depends_on_id)
               /\ response' = [status_code |-> 200,
                               body |-> [message |-> "Dependency added",
                                         display_id |-> tasks[depends_on_id].display_id]]

remove_task_dependency ==
    /\ pc = "received"
    /\ UNCHANGED <<sessions, project_dependencies, github_links>>
    /\ request.op = "remove_task_dependency"
    /\ pc' = "responded"
    /\ before' = Db
    /\ UNCHANGED <<project_types, projects, task_types, tasks, teams, seq, request, attempt>>
    /\ LET task_id == request.task_id
           depends_on_id == request.depends_on_id
       IN IF task_id \notin DOMAIN tasks
          THEN /\ response' = HTTPException(404, [msg |-> "Task not found"])
               /\ UNCHANGED task_dependencies
          ELSE IF depends_on_id \notin DependenciesOf(task_dependencies, task_id)
          THEN /\ response' = HTTPException(404, [msg |-> "Dependency not found"])
               /\ UNCHANGED task_dependencies
          ELSE /\ task_dependencies' =
                      task_dependencies (-) SetToBag({<<task_id, depends_on_id>>})
               /\ response' = [status_code |-> 200,
                               body |-> [message |-> "Dependency removed"]]

DependencyRequests ==
    AddProjectDependencyRequests \cup RemoveProjectDependencyRequests
        \cup AddTaskDependencyRequests \cup RemoveTaskDependencyRequests

ReceiveDependencyRequest == ReceiveOneOf(DependencyRequests)

\* NumRows projects of one type and NumRows tasks of one type, none of them
\* with a dependency
DependencyInit ==
    /\ pc = "idle"
    /\ sessions = <<>>
    /\ project_dependencies = EmptyBag
    /\ task_dependencies = EmptyBag
    /\ github_links = <<>>
    /\ request = NoRequest
    /\ response = NoResponse
    /\ attempt = 0
    /\ \E workflow \in InitWorkflows :
       \E status \in InitStatuses(workflow) :
          /\ project_types = [id \in {1} |-> [workflow |-> workflow]]
          /\ projects = [r \in RowIds |-> [project_type_id |-> 1, status |-> status]]
          /\ task_types = [id \in {1} |-> [team_id |-> 1, workflow |-> workflow]]
          /\ tasks = [r \in RowIds |->
                 [task_type_id |-> 1, team_id |-> 1, status |-> status,
                  display_id |-> DisplayId(r)]]
    /\ teams = [id \in {1} |-> [slug |-> TeamSlug(id)]]
    /\ seq = [project_types |-> 1, projects |-> NumRows, task_types |-> 1,
              tasks |-> NumRows, teams |-> 1]
    /\ before = Db

DependencyNext ==
    \/ ReceiveDependencyRequest
    \/ add_project_dependency
    \/ remove_project_dependency
    \/ add_task_dependency
    \/ remove_task_dependency
    \/ Return

DependencySpec == DependencyInit /\ [][DependencyNext]_vars

(***************************************************************************)
(* github: the pull_request webhook.  A text (a PR title, a branch name)   *)
(* is the sequence of its characters.                                      *)
(***************************************************************************)
\* the characters of settings.TASK_ID_PREFIX
TASK_ID_PREFIX_CHARS == <<"C", "O", "R", "E">>

Digits == {"0", "1", "2", "3", "4", "5", "6", "7", "8", "9"}

\* str.upper() of one character of the texts of the model
Upper(c) ==
    CASE c = "c" -> "C" [] c = "o" -> "O" [] c = "r" -> "R" [] c = "e" -> "E"
      [] c = "f" -> "F" [] c = "i" -> "I" [] c = "x" -> "X" [] c = "m" -> "M"
      [] c = "a" -> "A" [] c = "n" -> "N" [] OTHER -> c

\* m.upper(), as a string
RECURSIVE UpperString(_)
UpperString(chars) ==
    IF chars = <<>> THEN "" ELSE Upper(Head(chars)) \o UpperString(Tail(chars))

\* the index after the longest run of digits of text that starts at i
RECURSIVE DigitsEnd(_, _)
DigitsEnd(text, i) ==
    IF i <= Len(text) /\ text[i] \in Digits THEN DigitsEnd(text, i + 1) ELSE i

\* TASK_ID_PATTERN matched at index i of text: the index after the match, 0
\* when there is none (re.IGNORECASE: the case of the prefix does not matter)
TaskIdMatchEnd(text, i) ==
    LET n == Len(TASK_ID_PREFIX_CHARS)
    IN IF /\ i + n + 1 <= Len(text)
          /\ \A k \in 1..n : Upper(text[i + k - 1]) = TASK_ID_PREFIX_CHARS[k]
          /\ text[i + n] = "-"
          /\ text[i + n + 1] \in Digits
       THEN DigitsEnd(text, i + n + 1)
       ELSE 0

\* TASK_ID_PATTERN.findall(text) from index i on, each match in upper case
RECURSIVE FindTaskIds(_, _)
FindTaskIds(text, i) ==
    IF i > Len(text) THEN <<>>
    ELSE LET end == TaskIdMatchEnd(text, i)
         IN IF end = 0 THEN FindTaskIds(text, i + 1)
            ELSE <<UpperString(SubSeq(text, i, end - 1))>> \o FindTaskIds(text, end)

extract_task_ids(text) == FindTaskIds(text, 1)

map_pr_status(state, merged) ==
    IF merged THEN "merged"
    ELSE IF state = "open" THEN "open"
    ELSE "closed"

\* the actions of a pull_request event that are processed
ProcessedActions == {"opened", "edited", "closed", "reopened", "synchronize"}

\* select(Task).where(Task.display_id == task_display_id)
TasksWithDisplayId(rows, display_id) ==
    {t \in DOMAIN rows : rows[t].display_id = display_id}

\* select(GitHubLink).where(task_id, link_type == pull_request,
\* repository_owner, repository_name, pr_number)
ExistingLinks(links, task_id, repo_owner, repo_name, pr_number) ==
    {l \in DOMAIN links :
        /\ links[l].task_id = task_id
        /\ links[l].link_type = "pull_request"
        /\ links[l].repository_owner = repo_owner
        /\ links[l].repository_name = repo_name
        /\ links[l].pr_number = pr_number}

\* the body of the loop over task_ids for the display ids of order, one
\* after the other: the links table, the id sequence and linked_tasks
\* afterwards; raised when scalar_one_or_none finds more than one row
RECURSIVE LinkTasks(_, _, _, _)
LinkTasks(acc, rows, data, order) ==
    IF order = <<>> \/ acc.raised THEN acc
    ELSE LET task_display_id == Head(order)
             found == TasksWithDisplayId(rows, task_display_id)
         IN IF found = {} THEN LinkTasks(acc, rows, data, Tail(order))
            ELSE LET task_id == CHOOSE t \in found : TRUE
                     existing == ExistingLinks(acc.links, task_id, data.repo_owner,
                                               data.repo_name, data.number)
                     pr_status == map_pr_status(data.state, data.merged)
                 IN IF Cardinality(existing) > 1
                    THEN [acc EXCEPT !.raised = TRUE]
                    ELSE IF existing # {}
                    THEN LET l == CHOOSE e \in existing : TRUE
                         IN LinkTasks(
                               [acc EXCEPT !.links[l].pr_title = data.title,
                                           !.links[l].pr_status = pr_status,
                                           !.linked_tasks = Append(@, task_display_id)],
                               rows, data, Tail(order))
                    ELSE LinkTasks(
                            [acc EXCEPT
                               !.links = (acc.links @@ (acc.last_id + 1 :>
                                   [task_id |-> task_id,
                                    link_type |-> "pull_request",
                                    repository_owner |-> data.repo_owner,
                                    repository_name |-> data.repo_name,
                                    pr_number |-> data.number,
                                    pr_title |-> data.title,
                                    pr_status |-> pr_status,
                                    branch_name |-> data.head_ref])),
                               !.last_id = @ + 1,
                               !.linked_tasks = Append(@, task_display_id)],
                            rows, data, Tail(order))

\* the orders in which a Python set of these elements may be iterated
Orders(elements) ==
    {order \in [1..Cardinality(elements) -> elements] :
        \A i, j \in DOMAIN order : i # j => order[i] # order[j]}

\* POST /github/webhook with X-GitHub-Event: pull_request
handle_pull_request_event ==
    /\ pc = "received"
    /\ UNCHANGED <<sessions, project_dependencies, task_dependencies>>
    /\ request.op = "pull_request"
    /\ pc' = "responded"
    /\ before' = Db
    /\ UNCHANGED <<project_types, projects, task_types, tasks, teams, request, attempt>>
    /\ LET data == request
           task_ids == Range(extract_task_ids(data.title))
                          \cup Range(extract_task_ids(data.head_ref))
       IN IF data.action \notin ProcessedActions
          THEN /\ response' = [status_code |-> 200, body |-> [message |-> "Action ignored"]]
               /\ UNCHANGED <<github_links, seq>>
          ELSE IF task_ids = {}
          THEN /\ response' = [status_code |-> 200,
                               body |-> [message |-> "No task IDs found"]]
               /\ UNCHANGED <<github_links, seq>>
          ELSE \E order \in Orders(task_ids) :
                 LET done == LinkTasks([links |-> github_links,
                                        last_id |-> seq.github_links,
                                        linked_tasks |-> <<>>, raised |-> FALSE],
                                       tasks, data, order)
                 IN IF done.raised
                    THEN /\ response' = InternalServerError
                         /\ UNCHANGED <<github_links, seq>>
                    ELSE /\ github_links' = done.links
                         /\ seq' = [seq EXCEPT !.github_links = done.last_id]
                         /\ response' = [status_code |-> 200,
                                         body |-> [message |-> "PR processed",
                                                   linked_tasks |-> done.linked_tasks]]

(***************************************************************************)
(* pull_request events, one after the other, for the pull requests         *)
(* 1..MaxPrNumber of two repositories.  The tasks CORE-1 .. CORE-NumRows   *)
(* exist; the links table starts empty.                                    *)
(***************************************************************************)
MaxPrNumber == 2

MaxLinkId == 3

\* pull_request.title
PrTitles ==
    {<<"C", "O", "R", "E", "-", "1">>,
     <<"c", "o", "r", "e", "-", "2", " ", "C", "O", "R", "E", "-", "1">>,
     <<"C", "O", "R", "E", "-", "1", "2">>,
     <<"f", "i", "x">>}

\* pull_request.head.ref
BranchNames == {<<"m", "a", "i", "n">>, <<"c", "o", "r", "e", "-", "2">>}

\* the head branch of a pull request does not change: the odd pull requests
\* come from one branch, the even ones from the other
HeadRef(number) ==
    IF number % 2 = 1 THEN <<"m", "a", "i", "n">> ELSE <<"c", "o", "r", "e", "-", "2">>

PullRequestEvents ==
    {data \in [op : {"pull_request"},
               action : {"opened", "edited", "closed", "labeled"},
               number : 1..MaxPrNumber,
               title : PrTitles,
               state : {"open", "closed"},
               merged : BOOLEAN,
               head_ref : BranchNames,
               repo_owner : {"acme"},
               repo_name : {"api", "web"}] :
        data.head_ref = HeadRef(data.number)}

\* an event arrives while the id sequence of github_links has ids left
ReceiveWebhook ==
    /\ seq.github_links < MaxLinkId
    /\ ReceiveOneOf(PullRequestEvents)

WebhookInit ==
    /\ pc = "idle"
    /\ sessions = <<>>
    /\ project_dependencies = EmptyBag
    /\ task_dependencies = EmptyBag
    /\ github_links = <<>>
    /\ request = NoRequest
    /\ response = NoResponse
    /\ attempt = 0
    /\ project_types = <<>>
    /\ projects = <<>>
    /\ teams = [id \in {1} |-> [slug |-> TeamSlug(id)]]
    /\ task_types = [id \in {1} |-> [team_id |-> 1, workflow |-> <<"Backlog", "Doing">>]]
    /\ tasks = [r \in RowIds |->
           [task_type_id |-> 1, team_id |-> 1, status |-> "Backlog",
            display_id |-> DisplayId(r)]]
    /\ seq = [project_types |-> 0, projects |-> 0, task_types |-> 1,
              tasks |-> NumRows, teams |-> 1, github_links |-> 0]
    /\ before = Db

WebhookNext ==
    \/ ReceiveWebhook
    \/ handle_pull_request_event
    \/ Return

WebhookSpec == WebhookInit /\ [][WebhookNext]_vars

(***************************************************************************)
(* Vocabulary of the properties.  Each is stated over the request, the     *)
(* response and the tables before and after, for whichever of the two      *)
(* kinds (projects, tasks) the request is about.                           *)
(***************************************************************************)
ProjectOps ==
    {"update_project_type_workflow", "migrate_projects_to_type", "delete_project_type",
     "update_project_type", "create_project", "update_project"}

WorkflowUpdateOps == {"update_project_type_workflow", "update_task_type_workflow"}

MigrationOps == {"migrate_projects_to_type", "migrate_tasks_to_type"}

\* the type the request names in its path
ReqTypeId ==
    IF request.op \in ProjectOps THEN request.project_type_id ELSE request.task_type_id

\* the target type a migration request names in its body
ReqTargetId ==
    IF request.op \in ProjectOps
    THEN request.target_project_type_id ELSE request.target_task_type_id

\* id -> workflow, for the types of the request's kind in database db
WorkflowsIn(db) ==
    IF request.op \in ProjectOps
    THEN [id \in DOMAIN db.project_types |-> db.project_types[id].workflow]
    ELSE [id \in DOMAIN db.task_types |-> db.task_types[id].workflow]

\* row -> [type_id, status], for the entities of the request's kind in db
EntitiesIn(db) ==
    IF request.op \in ProjectOps
    THEN [r \in DOMAIN db.projects |->
            [type_id |-> db.projects[r].project_type_id, status |-> db.projects[r].status]]
    ELSE [r \in DOMAIN db.tasks |->
            [type_id |-> db.tasks[r].task_type_id, status |-> db.tasks[r].status]]

EntitiesOfType(db, T) == {r \in DOMAIN EntitiesIn(db) : EntitiesIn(db)[r].type_id = T}

EntitiesInStatus(db, T, s) == {r \in EntitiesOfType(db, T) : EntitiesIn(db)[r].status = s}

\* status_map read off the request: its keys, and for a key the new_status
\* of the last pair given for it
MapKeys == {request.status_mappings[i].old_status : i \in DOMAIN request.status_mappings}

PairsOf(k) == {i \in DOMAIN request.status_mappings : request.status_mappings[i].old_status = k}

MapValue(k) ==
    request.status_mappings[CHOOSE i \in PairsOf(k) : \A j \in PairsOf(k) : j <= i].new_status

FirstPairOf(k) == CHOOSE i \in PairsOf(k) : \A j \in PairsOf(k) : i <= j

\* a workflow update that found its type
WorkflowUpdateHandled ==
    /\ pc = "responded"
    /\ request.op \in WorkflowUpdateOps
    /\ ReqTypeId \in DOMAIN WorkflowsIn(before)

RemovedByRequest == Range(WorkflowsIn(before)[ReqTypeId]) \ Range(request.workflow)

\* removed statuses that are no key of status_map and have an entity
UnmappedInUse ==
    {s \in RemovedByRequest :
        s \notin MapKeys /\ EntitiesInStatus(before, ReqTypeId, s) # {}}

\* keys of status_map whose new_status is not in the proposed workflow
KeysWithInvalidTarget == {k \in MapKeys : MapValue(k) \notin Range(request.workflow)}

UnmappedMsgs == {"Status has projects", "Status has tasks"}

(***************************************************************************)
(* C1: a workflow update that removes a status which is no key of          *)
(* status_map while an entity of the type is in it fails, naming such a    *)
(* status and the exact number of entities of the type in it.              *)
(***************************************************************************)
C1_UnmappedStatusInUse ==
    (WorkflowUpdateHandled /\ UnmappedInUse # {}) =>
        /\ response.status_code = 400
        /\ response.detail.msg \in UnmappedMsgs
        /\ response.detail.status \in UnmappedInUse
        /\ response.detail.count =
              Cardinality(EntitiesInStatus(before, ReqTypeId, response.detail.status))

C1_Witness ==
    /\ WorkflowUpdateHandled
    /\ UnmappedInUse # {}
    /\ response.status_code = 400
    /\ response.detail.msg = "Status has projects"
    /\ response.detail.count = 2
    /\ Cardinality(EntitiesOfType(before, ReqTypeId)) = 2

(***************************************************************************)
(* C2 as claimed: a workflow update with a status_map entry whose          *)
(* new_status is not in the proposed workflow fails with the               *)
(* target-status-not-in-workflow error, naming such a status.              *)
(***************************************************************************)
C2_Claimed ==
    (WorkflowUpdateHandled /\ KeysWithInvalidTarget # {}) =>
        /\ response.status_code = 400
        /\ response.detail.msg = "Target status not in new workflow"
        /\ response.detail.status \in {MapValue(k) : k \in KeysWithInvalidTarget}

(***************************************************************************)
(* C2 amended: such a workflow update fails; with the unmapped-status      *)
(* error when a removed status that is no key of status_map has an entity  *)
(* (that check runs first), otherwise with the target-status error naming  *)
(* the new_status of the first such entry of status_map.                   *)
(***************************************************************************)
C2_InvalidTargetFails ==
    (WorkflowUpdateHandled /\ KeysWithInvalidTarget # {}) =>
        /\ response.status_code = 400
        /\ IF UnmappedInUse # {}
           THEN response.detail.msg \in UnmappedMsgs
           ELSE /\ response.detail.msg = "Target status not in new workflow"
                /\ \E k \in KeysWithInvalidTarget :
                      /\ \A l \in KeysWithInvalidTarget : FirstPairOf(k) <= FirstPairOf(l)
                      /\ response.detail.status = MapValue(k)

C2_Witness ==
    /\ WorkflowUpdateHandled
    /\ response.status_code = 400
    /\ response.detail.msg = "Target status not in new workflow"
    /\ Cardinality({MapValue(k) : k \in KeysWithInvalidTarget}) = 2

(***************************************************************************)
(* C3: a workflow update or a type migration that fails (type not found,   *)
(* same type, target status not in workflow, unmapped status in use)       *)
(* leaves all the tables exactly as they were when it started.             *)
(***************************************************************************)
C3_NoPartialApplication ==
    (/\ pc = "responded"
     /\ request.op \in WorkflowUpdateOps \cup MigrationOps
     /\ response.status_code \in {400, 404}) => Db = before

\* a failed workflow update whose status_map, had it been applied, would
\* have moved an entity of the type
C3_Witness ==
    /\ WorkflowUpdateHandled
    /\ response.status_code = 400
    /\ response.detail.msg = "Target status not in new workflow"
    /\ \E k \in MapKeys :
          /\ EntitiesInStatus(before, ReqTypeId, k) # {}
          /\ MapValue(k) # k
    /\ Db = before

(***************************************************************************)
(* C4 as claimed: a workflow update succeeds whenever every target of      *)
(* status_map is in the proposed workflow and every removed status has no  *)
(* entity of the type or is a key of status_map; the type's workflow is    *)
(* then the proposed one, in the same order.                               *)
(***************************************************************************)
C4_Claimed ==
    (/\ WorkflowUpdateHandled
     /\ KeysWithInvalidTarget = {}
     /\ \A s \in RemovedByRequest :
            EntitiesInStatus(before, ReqTypeId, s) = {} \/ s \in MapKeys) =>
        /\ response.status_code = 200
        /\ response.body.workflow = request.workflow
        /\ WorkflowsIn(Db)[ReqTypeId] = request.workflow

(***************************************************************************)
(* C4 amended: a workflow update that proposes a non-empty workflow        *)
(* succeeds whenever every target of status_map is in the proposed         *)
(* workflow and every removed status has no entity of the type or is a key *)
(* of status_map; the type's workflow is then the proposed one, in the     *)
(* same order.  One that proposes the empty workflow never succeeds.       *)
(***************************************************************************)
C4_ValidUpdateSucceeds ==
    /\ (WorkflowUpdateHandled /\ request.workflow = <<>>) => response.status_code # 200
    /\ (/\ WorkflowUpdateHandled
        /\ request.workflow # <<>>
        /\ KeysWithInvalidTarget = {}
        /\ \A s \in RemovedByRequest :
               EntitiesInStatus(before, ReqTypeId, s) = {} \/ s \in MapKeys) =>
           /\ response.status_code = 200
           /\ response.body.workflow = request.workflow
           /\ WorkflowsIn(Db)[ReqTypeId] = request.workflow

\* success although a removed status (without entities) has no mapping,
\* with a proposed workflow where order matters
C4_Witness ==
    /\ WorkflowUpdateHandled
    /\ attempt = 1
    /\ response.status_code = 200
    /\ \E s \in RemovedByRequest :
          s \notin MapKeys /\ EntitiesInStatus(before, ReqTypeId, s) = {}
    /\ Len(request.workflow) = 2
    /\ request.workflow[1] # request.workflow[2]
    /\ WorkflowsIn(Db)[ReqTypeId] = request.workflow

(***************************************************************************)
(* C5 as claimed: after a successful workflow update every entity of the   *)
(* type whose status was a key s of status_map has status status_map[s],   *)
(* and every other entity of the type has the status it had.               *)
(***************************************************************************)
C5_Claimed ==
    (WorkflowUpdateHandled /\ response.status_code = 200) =>
        \A r \in EntitiesOfType(before, ReqTypeId) :
            LET s == EntitiesIn(before)[r].status
            IN EntitiesIn(Db)[r].status = IF s \in MapKeys THEN MapValue(s) ELSE s

(***************************************************************************)
(* C6 as claimed: the same workflow update sent again right after it       *)
(* succeeded leaves every workflow and every entity as the first           *)
(* application left them.                                                  *)
(***************************************************************************)
C6_Claimed ==
    (pc = "responded" /\ request.op \in WorkflowUpdateOps /\ attempt = 2) =>
        Db = before

(***************************************************************************)
(* C7: a successful migration from S to D leaves no entity of type S, adds *)
(* to D exactly the entities S had, and reports their number.              *)
(***************************************************************************)
MigrationSucceeded ==
    /\ pc = "responded"
    /\ request.op \in MigrationOps
    /\ response.status_code = 200

C7_MigrationMovesAll ==
    MigrationSucceeded =>
        /\ EntitiesOfType(Db, ReqTypeId) = {}
        /\ Cardinality(EntitiesOfType(Db, ReqTargetId)) =
              Cardinality(EntitiesOfType(before, ReqTargetId))
                + Cardinality(EntitiesOfType(before, ReqTypeId))
        /\ EntitiesOfType(Db, ReqTargetId) =
              EntitiesOfType(before, ReqTargetId) \cup EntitiesOfType(before, ReqTypeId)
        /\ response.body.migrated_count = Cardinality(EntitiesOfType(before, ReqTypeId))

\* one entity moves into a type that already had one, its status unmapped
C7_Witness ==
    /\ MigrationSucceeded
    /\ Cardinality(EntitiesOfType(before, ReqTypeId)) = 1
    /\ Cardinality(EntitiesOfType(before, ReqTargetId)) = 1
    /\ \A r \in EntitiesOfType(before, ReqTypeId) : EntitiesIn(before)[r].status \notin MapKeys
    /\ MapKeys # {}
    /\ response.body.migrated_count = 1

(***************************************************************************)
(* C8: after a successful migration into D each migrated entity has status *)
(* status_map[s] when its status s before was a key, and otherwise         *)
(* D.workflow[0], or "Backlog" when D.workflow is empty.                   *)
(***************************************************************************)
FallbackStatus ==
    LET w == WorkflowsIn(before)[ReqTargetId]
    IN IF Len(w) > 0 THEN Head(w) ELSE "Backlog"

C8_MigratedStatus ==
    MigrationSucceeded =>
        \A r \in EntitiesOfType(before, ReqTypeId) :
            LET s == EntitiesIn(before)[r].status
            IN EntitiesIn(Db)[r].status = IF s \in MapKeys THEN MapValue(s) ELSE FallbackStatus

\* one entity takes a mapped status that is itself a key mapped elsewhere,
\* another one, unmapped, takes workflow[0], which is not "Backlog"
C8_Witness ==
    /\ MigrationSucceeded
    /\ FallbackStatus # "Backlog"
    /\ \E r1, r2 \in EntitiesOfType(before, ReqTypeId) :
          LET s1 == EntitiesIn(before)[r1].status
              s2 == EntitiesIn(before)[r2].status
          IN /\ s1 \in MapKeys
             /\ MapValue(s1) \in MapKeys
             /\ MapValue(MapValue(s1)) # MapValue(s1)
             /\ EntitiesIn(Db)[r1].status = MapValue(s1)
             /\ s2 \notin MapKeys
             /\ s2 # FallbackStatus
             /\ EntitiesIn(Db)[r2].status = FallbackStatus

(***************************************************************************)
(* C9: a migration whose target type is the source type is rejected (as    *)
(* "same type" when the type exists) and changes nothing.                  *)
(***************************************************************************)
SameTypeMsgs ==
    {"Cannot migrate to the same project type", "Cannot migrate to the same task type"}

C9_SameTypeRejected ==
    (pc = "responded" /\ request.op \in MigrationOps /\ ReqTargetId = ReqTypeId) =>
        /\ response.status_code # 200
        /\ Db = before
        /\ ReqTypeId \in DOMAIN WorkflowsIn(before) =>
              response.status_code = 400 /\ response.detail.msg \in SameTypeMsgs

\* rejected although the mapping is valid for the type and would have
\* moved an entity
C9_Witness ==
    /\ pc = "responded"
    /\ request.op \in MigrationOps
    /\ ReqTargetId = ReqTypeId
    /\ response.status_code = 400
    /\ response.detail.msg \in SameTypeMsgs
    /\ \E k \in MapKeys :
          /\ EntitiesInStatus(before, ReqTypeId, k) # {}
          /\ MapValue(k) # k
    /\ \A k \in MapKeys : MapValue(k) \in Range(WorkflowsIn(before)[ReqTypeId])

(***************************************************************************)
(* C10: a migration between two different existing types is rejected with  *)
(* the target-status error, and changes nothing, when an entry of          *)
(* status_map has a new_status outside the target type's workflow, whether *)
(* or not a source entity is in that entry's old_status.                   *)
(***************************************************************************)
MigrationValidated ==
    /\ pc = "responded"
    /\ request.op \in MigrationOps
    /\ ReqTypeId \in DOMAIN WorkflowsIn(before)
    /\ ReqTargetId \in DOMAIN WorkflowsIn(before)
    /\ ReqTargetId # ReqTypeId

KeysOutsideTarget ==
    {k \in MapKeys : MapValue(k) \notin Range(WorkflowsIn(before)[ReqTargetId])}

C10_InvalidTargetRejected ==
    (MigrationValidated /\ KeysOutsideTarget # {}) =>
        /\ response.status_code = 400
        /\ response.detail.msg = "Target status not in target workflow"
        /\ response.detail.status \in {MapValue(k) : k \in KeysOutsideTarget}
        /\ Db = before

\* rejected although no source entity is in the old_status of a bad entry
C10_Witness ==
    /\ MigrationValidated
    /\ KeysOutsideTarget # {}
    /\ EntitiesOfType(before, ReqTypeId) # {}
    /\ \A k \in KeysOutsideTarget : EntitiesInStatus(before, ReqTypeId, k) = {}
    /\ response.status_code = 400
    /\ response.detail.msg = "Target status not in target workflow"

(***************************************************************************)
(* C11: deleting a type that exists is denied with the number of entities  *)
(* that reference it, and changes nothing, when that number is at least    *)
(* one; it succeeds, removing the type and nothing else, exactly when the  *)
(* number is zero.                                                         *)
(***************************************************************************)
TypeDeletionOps == {"delete_project_type", "delete_task_type"}

TypeDeletionHandled ==
    /\ pc = "responded"
    /\ request.op \in TypeDeletionOps
    /\ ReqTypeId \in DOMAIN WorkflowsIn(before)

DeletionDeniedMsgs ==
    {"Cannot delete project type with existing projects",
     "Cannot delete task type with existing tasks"}

\* db without the type the request names
WithoutReqType(db) ==
    IF request.op \in ProjectOps
    THEN [db EXCEPT !.project_types = [k \in DOMAIN @ \ {ReqTypeId} |-> @[k]]]
    ELSE [db EXCEPT !.task_types = [k \in DOMAIN @ \ {ReqTypeId} |-> @[k]]]

C11_TypeDeletion ==
    TypeDeletionHandled =>
        IF EntitiesOfType(before, ReqTypeId) # {}
        THEN /\ response.status_code = 400
             /\ response.detail.msg \in DeletionDeniedMsgs
             /\ response.detail.count = Cardinality(EntitiesOfType(before, ReqTypeId))
             /\ Db = before
        ELSE /\ response.status_code = 200
             /\ ReqTypeId \notin DOMAIN WorkflowsIn(Db)
             /\ Db = WithoutReqType(before)

\* denied for the one entity of the type while the other type has the rest
C11_Witness ==
    /\ TypeDeletionHandled
    /\ Cardinality(EntitiesOfType(before, ReqTypeId)) = 1
    /\ Cardinality(DOMAIN EntitiesIn(before)) > 1
    /\ response.status_code = 400
    /\ response.detail.count = 1
    /\ ReqTypeId \in DOMAIN WorkflowsIn(Db)

(***************************************************************************)
(* C12: in every state of a run of create/update entity, workflow update,  *)
(* generic type update, type migration, type deletion and team deletion    *)
(* requests, every project's project_type_id and every task's task_type_id *)
(* is the id of a type that exists.                                        *)
(***************************************************************************)
C12_ReferentialIntegrity ==
    /\ \A p \in DOMAIN projects : projects[p].project_type_id \in DOMAIN project_types
    /\ \A t \in DOMAIN tasks : tasks[t].task_type_id \in DOMAIN task_types

\* a team was deleted, and with it a task type that a task referenced
C12_Witness ==
    /\ pc = "responded"
    /\ request.op = "delete_team"
    /\ response.status_code = 200
    /\ \E t \in DOMAIN before.tasks :
          /\ before.tasks[t].task_type_id \notin DOMAIN task_types
          /\ tasks[t].task_type_id \in DOMAIN task_types

(***************************************************************************)
(* C13 as claimed: in every state of such a run, which starts with every   *)
(* status in its type's workflow, every project's status is in the         *)
(* workflow of its project type and every task's status is in the workflow *)
(* of its task type.                                                       *)
(***************************************************************************)
C13_Claimed ==
    /\ \A p \in DOMAIN projects :
          projects[p].status \in Range(project_types[projects[p].project_type_id].workflow)
    /\ \A t \in DOMAIN tasks :
          tasks[t].status \in Range(task_types[tasks[t].task_type_id].workflow)

(***************************************************************************)
(* C14 as claimed: a request that is no workflow update leaves the         *)
(* workflow of every project type and task type that exists before and     *)
(* after it as it was; the generic update of a type is such a request.     *)
(***************************************************************************)
C14_Claimed ==
    (pc = "responded" /\ request.op \notin WorkflowUpdateOps) =>
        /\ \A id \in DOMAIN before.project_types \cap DOMAIN project_types :
              project_types[id].workflow = before.project_types[id].workflow
        /\ \A id \in DOMAIN before.task_types \cap DOMAIN task_types :
              task_types[id].workflow = before.task_types[id].workflow

\* a status name occurs more than once in workflow
HasDuplicates(workflow) ==
    \E i, j \in DOMAIN workflow : i # j /\ workflow[i] = workflow[j]

(***************************************************************************)
(* C15 as claimed: a workflow update whose proposed workflow is empty or   *)
(* names a status twice is rejected as a client error, and nothing in the  *)
(* database changes.                                                       *)
(***************************************************************************)
C15_Claimed ==
    (WorkflowUpdateHandled /\ (request.workflow = <<>> \/ HasDuplicates(request.workflow))) =>
        /\ response.status_code \in {400, 422}
        /\ Db = before

(***************************************************************************)
(* C16 as claimed: in every state of a run of type and entity requests     *)
(* that starts with non-empty, duplicate-free workflows, every project     *)
(* type and every task type has a workflow that is non-empty and names no  *)
(* status twice.                                                           *)
(***************************************************************************)
C16_Claimed ==
    /\ \A id \in DOMAIN project_types :
          /\ project_types[id].workflow # <<>>
          /\ ~HasDuplicates(project_types[id].workflow)
    /\ \A id \in DOMAIN task_types :
          /\ task_types[id].workflow # <<>>
          /\ ~HasDuplicates(task_types[id].workflow)

\* the team a delete_team request moves the tasks to: the team named by
\* reassign_tasks_to, otherwise the team with the slug of the Unassigned team
TargetTeams ==
    IF \E i \in DOMAIN request.query : request.query[i][1] = "reassign_tasks_to"
    THEN {request.query[i][2] : i \in DOMAIN request.query}
    ELSE {id \in DOMAIN teams : teams[id].slug = "unassigned"}

TeamDeleted ==
    /\ pc = "responded"
    /\ request.op = "delete_team"
    /\ response.status_code = 200

(***************************************************************************)
(* C17: after a successful delete_team(T), every task that had team_id T   *)
(* is of the target team (reassign_tasks_to, or else the Unassigned team), *)
(* of a task type of the target team and in that type's workflow[0]        *)
(* ("Backlog" when the workflow is empty); every other task is as it was,  *)
(* no task is gone, and team T and every task type of team T are gone.     *)
(***************************************************************************)
C17_TeamDeletion ==
    TeamDeleted =>
        /\ DOMAIN tasks = DOMAIN before.tasks
        /\ \A t \in DOMAIN before.tasks :
              IF before.tasks[t].team_id = request.team_id
              THEN /\ tasks[t].team_id \in TargetTeams
                   /\ tasks[t].team_id \in DOMAIN teams
                   /\ tasks[t].task_type_id \in DOMAIN task_types
                   /\ task_types[tasks[t].task_type_id].team_id = tasks[t].team_id
                   /\ LET workflow == task_types[tasks[t].task_type_id].workflow
                      IN tasks[t].status = IF workflow = <<>> THEN "Backlog" ELSE workflow[1]
              ELSE tasks[t] = before.tasks[t]
        /\ request.team_id \notin DOMAIN teams
        /\ \A id \in DOMAIN before.task_types :
              before.task_types[id].team_id = request.team_id => id \notin DOMAIN task_types

\* a team with a task in a status other than the first of the target type's
\* workflow was deleted, while a task of another team stayed
C17_Witness ==
    /\ TeamDeleted
    /\ \E t \in DOMAIN before.tasks :
          /\ before.tasks[t].team_id = request.team_id
          /\ before.tasks[t].status # tasks[t].status
          /\ before.tasks[t].task_type_id # tasks[t].task_type_id
    /\ \E t \in DOMAIN before.tasks : before.tasks[t].team_id # request.team_id

\* a create_task request that passed the team and task type checks
TaskCreationHandled ==
    /\ pc = "responded"
    /\ request.op = "create_task"
    /\ response.status_code # 400

(***************************************************************************)
(* C18: while tasks are created and deleted one request after the other,   *)
(* with ids from an increasing sequence, no two existing tasks have the    *)
(* same display_id, and the display_id create_task generates is that of no *)
(* task that exists when it runs: the creation succeeds with it.           *)
(***************************************************************************)
C18_DisplayIdsUnique ==
    /\ \A t, u \in DOMAIN tasks : t # u => tasks[t].display_id # tasks[u].display_id
    /\ TaskCreationHandled =>
          /\ response.status_code = 201
          /\ \A t \in DOMAIN before.tasks :
                before.tasks[t].display_id # response.body.display_id
          /\ tasks[response.body.id].display_id = response.body.display_id

\* a task was created next to an older one after the task with the highest
\* id had been deleted: its display number is not its id
C18_Witness ==
    /\ TaskCreationHandled
    /\ response.status_code = 201
    /\ DOMAIN before.tasks # {}
    /\ \E t \in DOMAIN tasks : t < response.body.id - 1
    /\ response.body.id - 1 \notin DOMAIN tasks
    /\ response.body.display_id # "CORE-" \o ToString(response.body.id)

\* a workflow update with both defects: an entry of status_map whose
\* new_status is not in the proposed workflow, and a removed status that is
\* no key of status_map and has an entity
BothDefects ==
    /\ WorkflowUpdateHandled
    /\ KeysWithInvalidTarget # {}
    /\ UnmappedInUse # {}

(***************************************************************************)
(* C19 as claimed: a workflow update with both defects fails with the      *)
(* target-status-not-in-workflow error, the targets being validated first. *)
(***************************************************************************)
C19_Claimed ==
    BothDefects =>
        /\ response.status_code = 400
        /\ response.detail.msg = "Target status not in new workflow"

(***************************************************************************)
(* C19 amended: the removed statuses are checked before the targets, so a  *)
(* workflow update with both defects fails with the unmapped-status-in-use *)
(* error, which names a removed, unmapped status that has an entity.       *)
(***************************************************************************)
C19_UnmappedCheckedFirst ==
    BothDefects =>
        /\ response.status_code = 400
        /\ response.detail.msg \in UnmappedMsgs
        /\ response.detail.status \in UnmappedInUse

\* a project workflow update with both defects was answered
C19_Witness ==
    /\ BothDefects
    /\ request.op = "update_project_type_workflow"
    /\ response.status_code = 400
    /\ response.detail.msg = "Status has projects"
    /\ Db = before

\* the status an entity in status s ends in when the entries of status_map
\* from the i-th pair of the request on are applied one after the other: a
\* key has the place of its first pair and the new_status of its last
RECURSIVE Follow(_, _)
Follow(s, i) ==
    IF i > Len(request.status_mappings) THEN s
    ELSE IF request.status_mappings[i].old_status = s /\ FirstPairOf(s) = i
         THEN Follow(MapValue(s), i + 1)
         ELSE Follow(s, i + 1)

WorkflowUpdateSucceeded ==
    /\ WorkflowUpdateHandled
    /\ response.status_code = 200

\* keys of status_map that the workflow update does not remove: they stay in
\* the proposed workflow, or were not in the workflow before
KeysNotRemoved == MapKeys \ RemovedByRequest

KeysGivenTwice ==
    {k \in MapKeys :
        \E i \in PairsOf(k) : request.status_mappings[i].new_status # MapValue(k)}

\* a workflow update or a migration that got as far as reading status_map
StatusMapRead ==
    \/ WorkflowUpdateHandled /\ UnmappedInUse = {}
    \/ MigrationValidated

\* the workflow the new_status values are validated against
ValidationWorkflow ==
    IF request.op \in WorkflowUpdateOps
    THEN request.workflow ELSE WorkflowsIn(before)[ReqTargetId]

(***************************************************************************)
(* C21: when several pairs of status_mappings name the same old_status,    *)
(* only the last pair's new_status counts, in a workflow update and in a   *)
(* type migration alike: the request is rejected for a target status       *)
(* exactly when the last new_status of some key is outside the workflow    *)
(* it is validated against, whatever the earlier pairs say, and on success *)
(* the entities in that old_status are moved by the last pair.             *)
(***************************************************************************)
C21_LastWriteWins ==
    (StatusMapRead /\ KeysGivenTwice # {}) =>
        /\ response.status_code = 400
              <=> \E k \in MapKeys : MapValue(k) \notin Range(ValidationWorkflow)
        /\ response.status_code \in {200, 400}
        /\ response.status_code = 200 =>
              \A r \in EntitiesOfType(before, ReqTypeId) :
                 LET s == EntitiesIn(before)[r].status
                 IN EntitiesIn(Db)[r].status =
                       IF request.op \in WorkflowUpdateOps THEN Follow(s, 1)
                       ELSE IF s \in MapKeys THEN MapValue(s) ELSE FallbackStatus

\* a workflow update succeeded although the first pair of a key names a
\* status outside the proposed workflow, and moved the key's entities to the
\* last pair's new_status
C21_Witness ==
    /\ WorkflowUpdateHandled
    /\ response.status_code = 200
    /\ \E k \in KeysGivenTwice :
          /\ \E i \in PairsOf(k) :
                request.status_mappings[i].new_status \notin Range(request.workflow)
          /\ EntitiesInStatus(before, ReqTypeId, k) # {}
          /\ MapValue(k) # k
          /\ \A r \in EntitiesInStatus(before, ReqTypeId, k) :
                EntitiesIn(Db)[r].status = MapValue(k)

(***************************************************************************)
(* The set-based migration plan: one bulk update per mapped old_status,    *)
(* each over the rows that are of the source type and in that status when  *)
(* it runs, then one bulk update of the rows still of the source type to   *)
(* the default status.  A row counts the updates that touched it.          *)
(***************************************************************************)
\* UPDATE ... WHERE type_id = source AND status IN statuses
\*        SET type_id = target, status = new_status
BulkUpdate(rows, source, statuses, target, new_status) ==
    [r \in DOMAIN rows |->
        IF rows[r].type_id = source /\ rows[r].status \in statuses
        THEN [type_id |-> target, status |-> new_status, updates |-> rows[r].updates + 1]
        ELSE rows[r]]

\* the bulk updates of the keys of status_map whose first pair is at place i
\* or later
RECURSIVE PlanMapped(_, _)
PlanMapped(rows, i) ==
    IF i > Len(request.status_mappings) THEN rows
    ELSE LET k == request.status_mappings[i].old_status
         IN IF FirstPairOf(k) = i
            THEN PlanMapped(BulkUpdate(rows, ReqTypeId, {k}, ReqTargetId, MapValue(k)), i + 1)
            ELSE PlanMapped(rows, i + 1)

SetBasedPlan ==
    LET rows == [r \in DOMAIN EntitiesIn(before) |->
                    [type_id |-> EntitiesIn(before)[r].type_id,
                     status |-> EntitiesIn(before)[r].status,
                     updates |-> 0]]
    IN BulkUpdate(PlanMapped(rows, 1), ReqTypeId, Statuses \ MapKeys, ReqTargetId,
                  FallbackStatus)

(***************************************************************************)
(* C22: a successful type migration leaves every entity with the type and  *)
(* the status the set-based plan gives it; the plan updates each entity of *)
(* the source type once and no other entity, and the migration reports as  *)
(* many rewritten rows as the source type had entities.                    *)
(***************************************************************************)
C22_RowByRowIsSetBased ==
    MigrationSucceeded =>
        /\ DOMAIN EntitiesIn(Db) = DOMAIN SetBasedPlan
        /\ \A r \in DOMAIN SetBasedPlan :
              /\ EntitiesIn(Db)[r].type_id = SetBasedPlan[r].type_id
              /\ EntitiesIn(Db)[r].status = SetBasedPlan[r].status
              /\ SetBasedPlan[r].updates =
                    IF r \in EntitiesOfType(before, ReqTypeId) THEN 1 ELSE 0
        /\ response.body.migrated_count = Cardinality(EntitiesOfType(before, ReqTypeId))

\* two keys of status_map, the first mapped onto the second, a source entity
\* in each of them, and the new_status of the second differs from it
C22_Witness ==
    /\ MigrationSucceeded
    /\ \E k1, k2 \in MapKeys :
          /\ k1 # k2
          /\ MapValue(k1) = k2
          /\ MapValue(k2) # k2
          /\ FirstPairOf(k1) < FirstPairOf(k2)
          /\ EntitiesInStatus(before, ReqTypeId, k1) # {}
          /\ \A r \in EntitiesInStatus(before, ReqTypeId, k1) : EntitiesIn(Db)[r].status = k2

(***************************************************************************)
(* C23: in every state of a run of requests, create_task, update_task,     *)
(* migrate_tasks_to_type and delete_team among them, that starts with      *)
(* every task in the team of its task type, each task's team_id is the     *)
(* team_id of the task type its task_type_id names.                        *)
(***************************************************************************)
C23_TaskTypeOfTaskTeam ==
    \A t \in DOMAIN tasks :
        /\ tasks[t].task_type_id \in DOMAIN task_types
        /\ task_types[tasks[t].task_type_id].team_id = tasks[t].team_id

\* a migration moved a task into a task type of another team, and the task
\* changed team with it
C23_Witness ==
    /\ MigrationSucceeded
    /\ request.op = "migrate_tasks_to_type"
    /\ \E t \in DOMAIN before.tasks :
          /\ before.tasks[t].task_type_id = request.task_type_id
          /\ tasks[t].team_id # before.tasks[t].team_id
          /\ tasks[t].team_id = task_types[request.target_task_type_id].team_id

\* update_task found its task
TaskUpdateHandled ==
    /\ pc = "responded"
    /\ request.op = "update_task"
    /\ request.task_id \in DOMAIN before.tasks

\* the fields of the body of the update_task request
FieldsGiven == {request.update_data[i][1] : i \in DOMAIN request.update_data}

FieldGiven(field) ==
    request.update_data[CHOOSE i \in DOMAIN request.update_data :
                            request.update_data[i][1] = field][2]

\* the task type the request selects: the one it names, and when it names
\* only a team the task's own; the task's own when it names neither
EffectiveTypeId ==
    IF "task_type_id" \in FieldsGiven THEN FieldGiven("task_type_id")
    ELSE before.tasks[request.task_id].task_type_id

(***************************************************************************)
(* C24: update_task with a status that is not in the workflow of the       *)
(* effective task type (the type selected by the request's task_type_id    *)
(* and team_id when one of them is given, the task's current type          *)
(* otherwise) is rejected with a 400 and leaves every task as it was.      *)
(***************************************************************************)
C24_InvalidStatusRejected ==
    (/\ TaskUpdateHandled
     /\ "status" \in FieldsGiven
     /\ \/ EffectiveTypeId \notin DOMAIN before.task_types
        \/ FieldGiven("status") \notin Range(before.task_types[EffectiveTypeId].workflow)) =>
        /\ response.status_code = 400
        /\ Db = before

\* rejected for its status, which is in the workflow of the task's current
\* type but not in that of the type the request moves the task to
C24_Witness ==
    /\ TaskUpdateHandled
    /\ FieldsGiven = {"task_type_id", "status"}
    /\ EffectiveTypeId # before.tasks[request.task_id].task_type_id
    /\ FieldGiven("status") \in
          Range(before.task_types[before.tasks[request.task_id].task_type_id].workflow)
    /\ response.status_code = 400
    /\ response.detail.msg = "Invalid status"
    /\ Db = before

\* every entity of the request's type had a status of the type's workflow
\* when the request arrived
ValidBefore ==
    \A r \in EntitiesOfType(before, ReqTypeId) :
        EntitiesIn(before)[r].status \in Range(WorkflowsIn(before)[ReqTypeId])

(***************************************************************************)
(* C25: a successful workflow update of type T that started with every     *)
(* entity of T in a status of T's old workflow ends with T's workflow the  *)
(* proposed one and every entity of T in a status of it.                   *)
(***************************************************************************)
C25_UpdatePreservesValidity ==
    (WorkflowUpdateSucceeded /\ ValidBefore) =>
        /\ WorkflowsIn(Db)[ReqTypeId] = request.workflow
        /\ \A r \in EntitiesOfType(Db, ReqTypeId) :
              EntitiesIn(Db)[r].status \in Range(request.workflow)

\* two removed statuses, one with entities and mapped, one without entities
\* and unmapped
C25_Witness ==
    /\ WorkflowUpdateSucceeded
    /\ ValidBefore
    /\ \E s1, s2 \in RemovedByRequest :
          /\ s1 \in MapKeys
          /\ EntitiesInStatus(before, ReqTypeId, s1) # {}
          /\ s2 \notin MapKeys
          /\ EntitiesInStatus(before, ReqTypeId, s2) = {}

\* the tables of the other kind than the request's: tasks and task types for
\* a project request, projects and project types for a task request
OtherTables(db) ==
    IF request.op \in ProjectOps
    THEN <<db.task_types, db.tasks, db.teams>>
    ELSE <<db.project_types, db.projects, db.teams>>

(***************************************************************************)
(* C26: a workflow update of type T, whatever its outcome, adds and        *)
(* removes no entity and no type, changes no entity's type, changes the    *)
(* status of no entity of another type than T, changes no workflow but     *)
(* T's, and leaves the tables of the other kind as they were.              *)
(***************************************************************************)
C26_WorkflowUpdateFrame ==
    (pc = "responded" /\ request.op \in WorkflowUpdateOps) =>
        /\ DOMAIN EntitiesIn(Db) = DOMAIN EntitiesIn(before)
        /\ DOMAIN WorkflowsIn(Db) = DOMAIN WorkflowsIn(before)
        /\ \A r \in DOMAIN EntitiesIn(before) :
              /\ EntitiesIn(Db)[r].type_id = EntitiesIn(before)[r].type_id
              /\ EntitiesIn(before)[r].type_id # ReqTypeId =>
                    EntitiesIn(Db)[r].status = EntitiesIn(before)[r].status
        /\ \A id \in DOMAIN WorkflowsIn(before) :
              id # ReqTypeId => WorkflowsIn(Db)[id] = WorkflowsIn(before)[id]
        /\ OtherTables(Db) = OtherTables(before)

\* the update moved an entity of T out of a status in which an entity of
\* another type stayed, and changed T's workflow next to another type's
C26_Witness ==
    /\ WorkflowUpdateSucceeded
    /\ WorkflowsIn(Db)[ReqTypeId] # WorkflowsIn(before)[ReqTypeId]
    /\ \E id \in DOMAIN WorkflowsIn(before) : id # ReqTypeId
    /\ \E r1, r2 \in DOMAIN EntitiesIn(before) :
          /\ EntitiesIn(before)[r1].type_id = ReqTypeId
          /\ EntitiesIn(before)[r2].type_id # ReqTypeId
          /\ EntitiesIn(before)[r1].status = EntitiesIn(before)[r2].status
          /\ EntitiesIn(Db)[r1].status # EntitiesIn(before)[r1].status
          /\ EntitiesIn(Db)[r2].status = EntitiesIn(before)[r2].status

\* both sessions have ended
RaceOver == At("workflow_update", "done") /\ At("task_update", "done")

\* the statuses the concurrent workflow update removes from the workflow
RemovedInRace ==
    Range(before.task_types[sessions.workflow_update.request.task_type_id].workflow)
        \ Range(sessions.workflow_update.request.workflow)

C28_Claimed ==
    (At("first", "flush") /\ At("second", "flush")) =>
        sessions.first.display_id # sessions.second.display_id


\* an add-dependency request was answered with an error
AddDependencyRejected ==
    /\ pc = "received"
    /\ request.op \in {"add_project_dependency", "add_task_dependency"}
    /\ pc' = "responded"
    /\ response'.status_code # 200

\* no row of the table names the same entity twice, and no pair has two rows
WellFormedDependencies(dependencies) ==
    \A d \in BagToSet(dependencies) : d[1] # d[2] /\ CopiesIn(d, dependencies) = 1

(* C29: whatever add-dependency and remove-dependency requests were served, *)
(* no project and no task depends on itself and every (entity, depends_on)  *)
(* pair is recorded at most once; an add-dependency request that is         *)
(* rejected leaves both dependency tables as they were.                     *)
C29_DependenciesWellFormed ==
    /\ [](WellFormedDependencies(project_dependencies)
            /\ WellFormedDependencies(task_dependencies))
    /\ [][AddDependencyRejected =>
            UNCHANGED <<project_dependencies, task_dependencies>>]_vars

\* an add of a project to itself, or of a pair that is recorded, was rejected
\* while dependencies of projects and of tasks were recorded
C29_Witness ==
    /\ pc = "responded"
    /\ request.op = "add_project_dependency"
    /\ response.status_code = 400
    /\ request.project_id \in DOMAIN projects
    /\ \/ request.project_id = request.depends_on_id
       \/ BagIn(<<request.project_id, request.depends_on_id>>, project_dependencies)
    /\ project_dependencies # EmptyBag
    /\ task_dependencies # EmptyBag


\* the pull_request links of the pull request the event data is about
LinksOfPullRequest(links, data) ==
    {l \in DOMAIN links :
        /\ links[l].link_type = "pull_request"
        /\ links[l].repository_owner = data.repo_owner
        /\ links[l].repository_name = data.repo_name
        /\ links[l].pr_number = data.number}

\* no two pull_request links of one task, repository and PR number
OneLinkPerPullRequest ==
    \A k, l \in DOMAIN github_links :
        (/\ github_links[k].link_type = "pull_request"
         /\ github_links[l].link_type = "pull_request"
         /\ github_links[k].task_id = github_links[l].task_id
         /\ github_links[k].repository_owner = github_links[l].repository_owner
         /\ github_links[k].repository_name = github_links[l].repository_name
         /\ github_links[k].pr_number = github_links[l].pr_number) => k = l

\* a pull_request event with a processed action was handled
PullRequestEventHandled ==
    /\ pc = "responded"
    /\ request.op = "pull_request"
    /\ request.action \in ProcessedActions
    /\ response.status_code = 200

\* the link l carries the title of the event data and the status the event
\* says: merged if merged, else open if its state is open, else closed
LinkShowsEvent(l, data) ==
    /\ github_links[l].pr_title = data.title
    /\ github_links[l].pr_status =
          (IF data.merged THEN "merged"
           ELSE IF data.state = "open" THEN "open"
           ELSE "closed")

\* the tasks the event data names in its title or its branch name
TasksNamed(data) ==
    {t \in DOMAIN tasks :
        tasks[t].display_id \in Range(extract_task_ids(data.title))
                                  \cup Range(extract_task_ids(data.head_ref))}

\* what the handler does keep: one link per task, repository and PR number,
\* and after an event every task it names has a link that shows the event
LinksOfNamedTasksShowEvent ==
    /\ OneLinkPerPullRequest
    /\ PullRequestEventHandled =>
          \A t \in TasksNamed(request) :
             \E l \in LinksOfPullRequest(github_links, request) :
                github_links[l].task_id = t /\ LinkShowsEvent(l, request)

(* C30 as claimed: after any sequence of pull_request events there is at   *)
(* most one pull_request link per task, repository owner, repository name  *)
(* and PR number, and every link of a pull request carries the title of    *)
(* the latest event for that pull request and the status that event says:  *)
(* merged if merged, else open if its state is open, else closed.          *)
C30_Claimed ==
    /\ OneLinkPerPullRequest
    /\ PullRequestEventHandled =>
          \A l \in LinksOfPullRequest(github_links, request) : LinkShowsEvent(l, request)

====
